---- MODULE Spec2Model ----
(***************************************************************************)
(* A model of the objc-js native bridge (src/native).                      *)
(*                                                                         *)
(* The module holds one state machine per subsystem, each with its own     *)
(* next-state relation and specification over the common variable tuple:   *)
(*   SpecHandle    ObjcObject (the JS handle that owns one retain)         *)
(*   SpecBlock     the block factory and its invoke trampoline             *)
(*   SpecInbound   SpecBlock together with the registries and the          *)
(*                 forwarded invocations, which share the JS thread        *)
(*   SpecCache     the struct-encoding cache                               *)
(*   SpecCall      CallFunction                                            *)
(***************************************************************************)
EXTENDS Integers, Sequences, FiniteSets, TLC

VARIABLES
  \* ---- ObjcObject (ObjcObject.h)
  handles,        \* slot -> [st, objcObject, wrapped, retains, releases]
  retainCount,    \* ObjC object -> its retain count
  preWrap,        \* ObjC object -> the part of its retain count held by others
  \* ---- block factory and trampoline (nobjc_block.h)
  g_blockRegistry,       \* sequence of BlockInfo
  g_blockRegistryMutex,  \* the set of threads holding it ({} = free)
  createPc,              \* position of the JS thread inside CreateBlockFromJSFunction
  pc,                    \* thread -> position inside BlockInvokeCallback
  seq,                   \* thread -> number of block invocations it has begun
  frame,                 \* thread -> [block, alive, fid]: the invoking frame
  callData,              \* thread -> [isComplete, completionMutex]: BlockCallData
  retSlot,               \* thread -> "zero" | "written": the caller's return slot
  signals,               \* thread -> completion signals given to the current frame
  tsfnQueue,             \* the thread-safe function's queue of [thread, fid]
  hpc,                   \* position of the JS thread inside BlockTSFNCallback
  hcur,                  \* the queue item BlockTSFNCallback is working on (<<>> if none)
  outcome,               \* thread -> how the JS call made for its frame ended
  lastJs,                \* thread -> the last of its invocations that reached JS
  outOfOrder,            \* an invocation reached JS after a later one of its thread
  returned,              \* thread -> how its last invocation ended
  \* ---- registries and the forwarding pipeline (protocol-manager.h,
  \*      subclass-manager.h, forwarding-common.h, protocol-storage.h)
  implementations_,      \* registry -> key -> the implementation stored, or NoImpl
  mutex_,                \* registry -> [excl, shared]: the threads holding its lock
  erased,                \* the implementations that were erased (and destroyed)
  implCount,             \* implementations constructed so far
  ctx,                   \* thread -> ForwardingContext of its forwarded call
  \* ---- struct-encoding cache (struct-utils.h)
  cache,                 \* encoding -> number of times an entry was stored for it
  cachePc,               \* thread -> position inside GetOrParseStructEncoding
  cacheKey,              \* thread -> the encoding it is looking up
  cacheHit,              \* thread -> whether its last call returned a cached entry
  \* ---- CallFunction (call-function.h)
  cfPc,                  \* position inside CallFunction
  cfIn,                  \* [infoLength, argCount, fixedArgCount] of the call
  cfResolved,            \* whether dlsym found the symbol
  cfEffects,             \* what the call has done so far
  cfError,               \* the error raised to the JS caller, or "none"
  \* ---- the conversion layer: each holds the last application of a function
  returnBuffer,          \* [path, code, returnSize, bufferSize]: a return buffer
  parsed,                \* [desc, encoding, result]: ParseStructEncodingWithNames
  structIo,              \* [stage, encoding, shape, js, packed, unpacked]: struct pack / unpack
  retInstall,            \* [path, code, result, outcome]: return-value installation
  toJs,                  \* [path, encoding, raw, js, newInstanceOf]: raw-to-JS conversion
  blockSig,              \* [desc, encoding, result]: ParseBlockSignature
  \* ---- single objects and call preparation, each exercised on its own
  blockCif,              \* [desc, encoding, sig, returnFFIType, argFFITypes, ffiTypeGuard]: a block's call interface
  pipelineCache,         \* thread -> [cache, stored]: its ForwardingPipelineCache and the last store
  callPath,              \* [path, encoding, ffiType, error, js]: a call-path operation on one encoding
  classRegistry,         \* [subclasses_, lookup]: SubclassManager's map and the last hierarchy lookup
  invocationGuards,      \* [guard, data]: InvocationDataGuard objects and the InvocationData they guard
  blockFactory,          \* [registry, closures, returned]: BlockInfos registered, FFI closures, results of the calls
  superCall,             \* [stage, methodSig, info, c, ended]: one callSuper and its FFIArgumentContext
  functionCall,          \* [stage, argTypes, info, c, ended]: the argument buffers of one CallFunction
  encodingView,          \* [path, typeEncoding, stale, simplified, fields, uses, totalSize]: a conversion that simplifies an encoding
  registryApi            \* [map, keys, made, last]: both registries, called through their interface with any key

handleVars == <<handles, retainCount, preWrap>>
blockVars == <<g_blockRegistry, g_blockRegistryMutex, createPc, pc, seq,
               frame, callData, retSlot, signals, tsfnQueue, hpc, hcur, outcome,
               lastJs, outOfOrder, returned>>
fwdVars == <<implementations_, mutex_, erased, implCount, ctx>>
cacheVars == <<cache, cachePc, cacheKey, cacheHit>>
callVars == <<cfPc, cfIn, cfResolved, cfEffects, cfError>>
unitVars == <<blockCif, pipelineCache, callPath, classRegistry, invocationGuards, blockFactory, superCall, functionCall, encodingView, registryApi>>
convVars == <<returnBuffer, parsed, structIo, retInstall, toJs, blockSig, unitVars>>
vars == <<handleVars, blockVars, fwdVars, cacheVars, callVars, convVars>>
outsideInbound == <<handleVars, cacheVars, callVars, convVars>>
outsideHandle == <<blockVars, fwdVars, cacheVars, callVars, convVars>>
\* everything but the conversion layer
outsideConv == <<handleVars, blockVars, fwdVars, cacheVars, callVars, unitVars>>
outsideBlock == <<outsideInbound, fwdVars>>

(***************************************************************************)
(* Bounds                                                                  *)
(***************************************************************************)
MaxHandles == 3
MaxOther == 2

Nil == "nil"
Objs == {"o1", "o2"}
HandleSlots == 1..MaxHandles

(***************************************************************************)
(* ObjcObject: constructor and destructor                                  *)
(***************************************************************************)
\* ObjcObject.h:57  the constructor takes the wrapped id only from one External
TakesExternal(nargs, isExternal) == nargs = 1 /\ isExternal

\* the constructor as it was before the retain was added (ObjcObject.h:61-67)
CtorRetainsNever(obj) == FALSE
\* ObjcObject.h:68  if (objcObject) objc_retain(objcObject)
CtorRetains(obj) == obj # Nil

\* ObjcObject.h:77  if (objcObject) { objc_release(objcObject); objcObject = nil; }
DtorReleases(obj) == obj # Nil

LiveHandlesOf(o) == {h \in HandleSlots : handles[h].st = "live" /\ handles[h].objcObject = o}

InitHandle ==
  /\ handles = [h \in HandleSlots |->
                  [st |-> "free", objcObject |-> Nil, wrapped |-> Nil,
                   retains |-> 0, releases |-> 0]]
  /\ retainCount = [o \in Objs |-> 1]
  /\ preWrap = [o \in Objs |-> 1]

\* ObjcObject::ObjcObject(info): info holds nargs values, the first an External
\* carrying arg (an object that is still alive, or nil) when isExternal
ObjcObjectCtor(h, nargs, isExternal, arg) ==
  /\ handles[h].st = "free"
  /\ arg # Nil => retainCount[arg] > 0
  /\ IF TakesExternal(nargs, isExternal)
       THEN /\ handles' = [handles EXCEPT ![h] =
                 [st |-> "live", objcObject |-> arg, wrapped |-> arg,
                  retains |-> IF CtorRetains(arg) THEN 1 ELSE 0, releases |-> 0]]
            /\ retainCount' = IF CtorRetains(arg) /\ arg # Nil
                                THEN [retainCount EXCEPT ![arg] = @ + 1]
                                ELSE retainCount
       ELSE \* "Cannot construct directly": objcObject stays nil, no handle results
            /\ handles' = [handles EXCEPT ![h] =
                 [st |-> "failed", objcObject |-> Nil, wrapped |-> Nil,
                  retains |-> 0, releases |-> 0]]
            /\ retainCount' = retainCount
  /\ UNCHANGED <<preWrap, outsideHandle>>

\* ObjcObject::~ObjcObject(), run by the JS garbage collector's finalizer
ObjcObjectDtor(h) ==
  /\ handles[h].st \in {"live", "failed"}
  /\ LET obj == handles[h].objcObject IN
       /\ handles' = [handles EXCEPT ![h] =
            [@ EXCEPT !.st = "dead", !.objcObject = Nil,
                      !.releases = IF DtorReleases(obj) THEN @ + 1 ELSE @]]
       /\ retainCount' = IF DtorReleases(obj) /\ obj # Nil
                           THEN [retainCount EXCEPT ![obj] = @ - 1]
                           ELSE retainCount
  /\ UNCHANGED <<preWrap, outsideHandle>>

\* The rest of the process retains or releases an object it owns a reference to
OtherOwner(o, d) ==
  /\ preWrap[o] + d \in 0..MaxOther
  /\ preWrap[o] > 0
  /\ preWrap' = [preWrap EXCEPT ![o] = @ + d]
  /\ retainCount' = [retainCount EXCEPT ![o] = @ + d]
  /\ UNCHANGED <<handles, outsideHandle>>

(***************************************************************************)
(* Block factory and invoke trampoline (nobjc_block.h)                     *)
(***************************************************************************)
MaxBlocks == 1
MaxCalls == 2
NumBg == 2
MaxImpls == 1

\* the thread that runs the JS runtime; blocks are created on it
JsThread == 0
BgThreads == 1..NumBg
Threads == {JsThread} \cup BgThreads
ReturnTypes == {"v", "q"}
JsResults == {"value", "throw"}

NoFrame == [block |-> 0, alive |-> FALSE, fid |-> 0]
NoCallData == [isComplete |-> FALSE, completionMutex |-> {}]

InitBlock ==
  /\ g_blockRegistry = <<>>
  /\ g_blockRegistryMutex = {}
  /\ createPc = "idle"
  /\ pc = [t \in Threads |-> "idle"]
  /\ seq = [t \in Threads |-> 0]
  /\ frame = [t \in Threads |-> NoFrame]
  /\ callData = [t \in Threads |-> NoCallData]
  /\ retSlot = [t \in Threads |-> "zero"]
  /\ signals = [t \in Threads |-> 0]
  /\ tsfnQueue = <<>>
  /\ hpc = "idle"
  /\ hcur = <<>>
  /\ outcome = [t \in Threads |-> "none"]
  /\ lastJs = [t \in Threads |-> 0]
  /\ outOfOrder = FALSE
  /\ returned = [t \in Threads |-> "none"]

\* ---- registries: their state, shared with the forwarded invocations
Registries == {"protocol", "subclass"}
Keys == {"k1"}
NoImpl == [id |-> 0, js_thread |-> JsThread, isElectron |-> FALSE]
NoCtx == [registry |-> "none", key |-> "none", impl |-> 0, skipDirect |-> FALSE]
Unlocked == [excl |-> {}, shared |-> {}]

InitForward ==
  /\ implementations_ = [r \in Registries |-> [k \in Keys |-> NoImpl]]
  /\ mutex_ = [r \in Registries |-> Unlocked]
  /\ erased = {}
  /\ implCount = 0
  /\ ctx = [t \in Threads |-> NoCtx]

\* the JS thread is single-threaded: it is inside at most one native entry point
JsIdle == hpc = "idle" /\ createPc = "idle" /\ pc[JsThread] \in {"idle", "done"}
\* queued calls are also taken up while the JS thread pumps its own run loop
JsServes == hpc = "idle" /\ createPc = "idle" /\ pc[JsThread] \in {"idle", "done", "x_pump"}

\* ---- CreateBlockFromJSFunction ------------------------------------------
CreateOutcomes == {"alloc_failed", "prep_cif_failed", "prep_closure_failed",
                   "block_copy_failed", "ok"}

\* nobjc_block.h:654-791: everything up to the registry lock.  A failed
\* closure allocation, ffi_prep_cif, ffi_prep_closure_loc or _Block_copy throws
\* to JS and returns nil (731-785); the BlockInfo records the creating thread
\* as js_thread (683).
CreateBlockBegin(result, returnType) ==
  /\ JsIdle
  /\ Len(g_blockRegistry) < MaxBlocks
  /\ IF result = "ok"
       THEN /\ g_blockRegistryMutex = {}
            /\ g_blockRegistryMutex' = {JsThread}
            /\ createPc' = returnType
       ELSE UNCHANGED <<g_blockRegistryMutex, createPc>>
  /\ UNCHANGED <<outsideBlock, g_blockRegistry, pc, seq, frame, callData, retSlot,
                 signals, tsfnQueue, hpc, hcur, outcome, lastJs, outOfOrder, returned>>

\* nobjc_block.h:793-796: push_back under g_blockRegistryMutex, then unlock
CreateBlockRegister ==
  /\ createPc \in ReturnTypes
  /\ g_blockRegistry' = Append(g_blockRegistry,
        [js_thread |-> JsThread, returnType |-> createPc])
  /\ g_blockRegistryMutex' = {}
  /\ createPc' = "idle"
  /\ UNCHANGED <<outsideBlock, pc, seq, frame, callData, retSlot, signals,
                 tsfnQueue, hpc, hcur, outcome, lastJs, outOfOrder, returned>>

\* ---- BlockInvokeCallback --------------------------------------------------
RECURSIVE SumOver(_, _)
SumOver(f, S) == IF S = {} THEN 0
                 ELSE LET x == CHOOSE y \in S : TRUE IN f[x] + SumOver(f, S \ {x})
\* block invocations begun so far, on all threads
CallsBegun == SumOver(seq, Threads)

IsJsThreadAlways(t, info) == TRUE
\* nobjc_block.h:571  pthread_equal(pthread_self(), info->js_thread)
IsJsThread(t, info) == t = info.js_thread

\* nobjc_block.h:595 (direct) and 531 with SetBlockReturnFromJS:441 (handler):
\* the return slot is written for a non-void block
WritesReturn(info) == info.returnType # "v"

\* The JS function is entered for invocation fid of thread t
Deliver(t, fid) ==
  /\ lastJs' = [lastJs EXCEPT ![t] = fid]
  /\ outOfOrder' = (outOfOrder \/ fid <= lastJs[t])

\* the block is invoked on thread t: nobjc_block.h:563-571 and, on the
\* cross-thread side, 608-618
BlockInvokeBegin(t, b) ==
  /\ pc[t] = "idle"
  /\ t = JsThread => JsIdle
  /\ CallsBegun < MaxCalls
  /\ b \in DOMAIN g_blockRegistry
  /\ seq' = [seq EXCEPT ![t] = @ + 1]
  /\ frame' = [frame EXCEPT ![t] = [block |-> b, alive |-> TRUE, fid |-> seq[t] + 1]]
  /\ pc' = [pc EXCEPT ![t] = IF IsJsThread(t, g_blockRegistry[b]) THEN "d_js"
                                                                 ELSE "x_call"]
  /\ UNCHANGED <<outsideBlock, g_blockRegistry, g_blockRegistryMutex, createPc,
                 callData, retSlot, signals, outcome, returned,
                 tsfnQueue, hpc, hcur, lastJs, outOfOrder>>

\* nobjc_block.h:573-605: the direct path; the JS function runs here and returns
\* a value or throws (every exception is caught at 598-604)
BlockInvokeDirect(t, res) ==
  /\ pc[t] = "d_js"
  /\ Deliver(t, frame[t].fid)
  /\ outcome' = [outcome EXCEPT ![t] = res]
  /\ retSlot' = [retSlot EXCEPT ![t] =
        IF res = "value" /\ WritesReturn(g_blockRegistry[frame[t].block])
          THEN "written" ELSE @]
  /\ frame' = [frame EXCEPT ![t].alive = FALSE]
  /\ returned' = [returned EXCEPT ![t] = "direct"]
  /\ pc' = [pc EXCEPT ![t] = "done"]
  /\ UNCHANGED <<outsideBlock, g_blockRegistry, g_blockRegistryMutex, createPc,
                 seq, callData, signals, tsfnQueue, hpc, hcur>>

\* nobjc_block.h:621-634: tsfn.Acquire(), tsfn.NonBlockingCall(&callData,
\* BlockTSFNCallback), tsfn.Release(); either call may fail, and then the
\* trampoline returns at once
BlockInvokeEnqueue(t, status) ==
  /\ pc[t] = "x_call"
  /\ IF status = "ok"
       THEN /\ tsfnQueue' = Append(tsfnQueue, [thread |-> t, fid |-> frame[t].fid,
                                                 kind |-> "block"])
            /\ pc' = [pc EXCEPT ![t] = "x_pump"]
            /\ UNCHANGED <<frame, returned>>
       ELSE /\ pc' = [pc EXCEPT ![t] = "done"]
            /\ frame' = [frame EXCEPT ![t].alive = FALSE]
            /\ returned' = [returned EXCEPT ![t] = status]
            /\ UNCHANGED tsfnQueue
  /\ UNCHANGED <<outsideBlock, g_blockRegistry, g_blockRegistryMutex, createPc,
                 seq, callData, retSlot, signals, hpc, hcur, outcome, lastJs,
                 outOfOrder>>

\* PumpRunLoopUntilComplete(callData.completionMutex, callData.isComplete),
\* called at nobjc_block.h:637: read the flag under the mutex and return when it
\* is set; otherwise run the run loop for one tick (constants.h:20) and look again
PumpRunLoopUntilComplete(t) ==
  /\ pc[t] = "x_pump"
  /\ callData[t].completionMutex = {}
  /\ IF callData[t].isComplete
       THEN /\ pc' = [pc EXCEPT ![t] = "done"]
            /\ frame' = [frame EXCEPT ![t].alive = FALSE]
            /\ returned' = [returned EXCEPT ![t] = "completed"]
       ELSE UNCHANGED <<pc, frame, returned>>
  /\ UNCHANGED <<outsideBlock, g_blockRegistry, g_blockRegistryMutex, createPc,
                 seq, callData, retSlot, signals, tsfnQueue, hpc, hcur, outcome,
                 lastJs, outOfOrder>>

\* the ObjC caller of the block carries on with what the invocation left
CallerContinues(t) ==
  /\ pc[t] = "done"
  /\ pc' = [pc EXCEPT ![t] = "idle"]
  /\ frame' = [frame EXCEPT ![t] = NoFrame]
  /\ callData' = [callData EXCEPT ![t] = NoCallData]
  /\ retSlot' = [retSlot EXCEPT ![t] = "zero"]
  /\ signals' = [signals EXCEPT ![t] = 0]
  /\ outcome' = [outcome EXCEPT ![t] = "none"]
  /\ returned' = [returned EXCEPT ![t] = "none"]
  /\ ctx' = [ctx EXCEPT ![t] = NoCtx]
  /\ UNCHANGED <<outsideInbound, implementations_, mutex_, erased, implCount,
                 g_blockRegistry, g_blockRegistryMutex, createPc,
                 seq, tsfnQueue, hpc, hcur, lastJs, outOfOrder>>

\* ---- BlockTSFNCallback (runs on the JS thread) ----------------------------
\* Orders of the handler's steps that a slip would produce
HandlerNextSignalFirst(p, threw) ==
  CASE p = "start" -> "h_signal"
    [] p = "h_signal" -> "h_unlock"
    [] p = "h_unlock" -> "h_js"
    [] p = "h_js" -> IF threw THEN "idle" ELSE "h_setret"
    [] OTHER -> "idle"

HandlerNextNoSignalOnThrow(p, threw) ==
  CASE p = "start" -> "h_js"
    [] p = "h_js" -> IF threw THEN "idle" ELSE "h_setret"
    [] p = "h_setret" -> "h_signal"
    [] p = "h_signal" -> "h_unlock"
    [] OTHER -> "idle"

HandlerNextWriteOnThrow(p, threw) ==
  CASE p = "start" -> "h_js"
    [] p = "h_js" -> "h_setret"
    [] p = "h_setret" -> "h_signal"
    [] p = "h_signal" -> "h_unlock"
    [] OTHER -> "idle"

HandlerNextLockAcrossJs(p, threw) ==
  CASE p = "start" -> "h_signal"
    [] p = "h_signal" -> "h_js"
    [] p = "h_js" -> IF threw THEN "h_unlock" ELSE "h_setret"
    [] p = "h_setret" -> "h_unlock"
    [] OTHER -> "idle"

\* nobjc_block.h:497-550, the order of the handler's steps:
\*   start     499-525  null checks, arguments read through callData
\*   h_js      528      the JS function is called
\*   h_setret  531-534  SetBlockReturnFromJS through callData->returnValuePtr
\*   (a throw at 528 lands in the catch clauses 535-541)
\*   h_signal  546-548  lock_guard on callData->completionMutex;
\*                      isComplete = true; notify_one
\*   h_unlock  549      the guard leaves scope
HandlerNext(p, threw) ==
  CASE p = "start" -> "h_js"
    [] p = "h_js" -> IF threw THEN "h_signal" ELSE "h_setret"
    [] p = "h_setret" -> "h_signal"
    [] p = "h_signal" -> "h_unlock"
    [] OTHER -> "idle"

HItem == hcur[1]
\* callData points into the invoking frame: it is stale once that frame returned
Stale(item) == ~(frame[item.thread].alive /\ frame[item.thread].fid = item.fid)
LeaveAt(p) == hcur' = IF p = "idle" THEN <<>> ELSE hcur

\* the thread-safe function hands the next queued call to the JS thread
HandlerDequeue ==
  /\ JsServes
  /\ tsfnQueue # <<>>
  /\ hcur' = <<Head(tsfnQueue)>>
  /\ tsfnQueue' = Tail(tsfnQueue)
  /\ hpc' = IF Head(tsfnQueue).kind = "block" THEN HandlerNext("start", FALSE)
                                              ELSE "c_js"
  /\ UNCHANGED <<outsideBlock, g_blockRegistry, g_blockRegistryMutex, createPc,
                 pc, seq, frame, callData, retSlot, signals, outcome, lastJs,
                 outOfOrder, returned>>

HandlerCallJs(res) ==
  /\ hpc = "h_js"
  /\ Deliver(HItem.thread, HItem.fid)
  /\ outcome' = [outcome EXCEPT ![HItem.thread] = res]
  /\ hpc' = HandlerNext("h_js", res = "throw")
  /\ LeaveAt(hpc')
  /\ UNCHANGED <<outsideBlock, g_blockRegistry, g_blockRegistryMutex, createPc,
                 pc, seq, frame, callData, retSlot, signals, tsfnQueue, returned>>

HandlerSetReturn ==
  /\ hpc = "h_setret"
  /\ LET t == HItem.thread IN
       retSlot' = [retSlot EXCEPT ![t] =
          IF frame[t].block \in DOMAIN g_blockRegistry
             /\ WritesReturn(g_blockRegistry[frame[t].block]) THEN "written" ELSE @]
  /\ hpc' = HandlerNext("h_setret", FALSE)
  /\ LeaveAt(hpc')
  /\ UNCHANGED <<outsideBlock, g_blockRegistry, g_blockRegistryMutex, createPc,
                 pc, seq, frame, callData, signals, tsfnQueue, outcome, lastJs,
                 outOfOrder, returned>>

HandlerSignal ==
  /\ hpc = "h_signal"
  /\ callData[HItem.thread].completionMutex = {}
  /\ callData' = [callData EXCEPT ![HItem.thread] =
                    [isComplete |-> TRUE, completionMutex |-> {JsThread}]]
  /\ signals' = [signals EXCEPT ![HItem.thread] = @ + 1]
  /\ hpc' = HandlerNext("h_signal", FALSE)
  /\ LeaveAt(hpc')
  /\ UNCHANGED <<outsideBlock, g_blockRegistry, g_blockRegistryMutex, createPc,
                 pc, seq, frame, retSlot, tsfnQueue, outcome, lastJs, outOfOrder,
                 returned>>

HandlerUnlock ==
  /\ hpc = "h_unlock"
  /\ callData' = [callData EXCEPT ![HItem.thread].completionMutex = {}]
  /\ hpc' = HandlerNext("h_unlock", outcome[HItem.thread] = "throw")
  /\ LeaveAt(hpc')
  /\ UNCHANGED <<outsideBlock, g_blockRegistry, g_blockRegistryMutex, createPc,
                 pc, seq, frame, retSlot, signals, tsfnQueue, outcome, lastJs,
                 outOfOrder, returned>>

\* what the JS thread does while it is inside a native entry point or has a
\* queued call to service
JsThreadStep ==
  \/ HandlerDequeue
  \/ \E res \in JsResults : HandlerCallJs(res)
  \/ HandlerSetReturn
  \/ HandlerSignal
  \/ HandlerUnlock
  \/ \E res \in JsResults : BlockInvokeDirect(JsThread, res)
  \/ CreateBlockRegister

NextBlock ==
  \/ \E result \in CreateOutcomes, rt \in ReturnTypes : CreateBlockBegin(result, rt)
  \/ CreateBlockRegister
  \/ \E t \in Threads, b \in 1..MaxBlocks : BlockInvokeBegin(t, b)
  \/ \E t \in Threads, res \in JsResults : BlockInvokeDirect(t, res)
  \/ \E t \in Threads, st \in {"ok", "acquire_failed", "call_failed"} :
       BlockInvokeEnqueue(t, st)
  \/ \E t \in Threads : PumpRunLoopUntilComplete(t)
  \/ \E t \in Threads : CallerContinues(t)
  \/ HandlerDequeue
  \/ \E res \in JsResults : HandlerCallJs(res)
  \/ HandlerSetReturn
  \/ HandlerSignal
  \/ HandlerUnlock

(***************************************************************************)
(* Registries (ProtocolManager, SubclassManager) and the forwarding        *)
(* pipeline of protocol-storage.h / forwarding-common.h                    *)
(***************************************************************************)
\* std::lock_guard<std::mutex> / std::unique_lock<std::shared_mutex>
CanLock(r) == mutex_[r] = Unlocked
\* std::shared_lock<std::shared_mutex> (subclass-manager.h:64, 113, 126)
CanLockShared(r) == mutex_[r].excl = {}

\* unordered_map::emplace leaves an entry that is already there
Emplace(map, k, impl) == IF map[k] = NoImpl THEN [map EXCEPT ![k] = impl] ELSE map

\* ProtocolManager::Register (protocol-manager.h:76-79) and
\* SubclassManager::Register (subclass-manager.h:77-80), called on the JS thread
\* by createProtocolImpl / defineClass with the key of a new instance or class
Register(r, k, isElectron) ==
  /\ JsIdle
  /\ implCount < MaxImpls
  /\ implementations_[r][k] = NoImpl
  /\ CanLock(r)
  /\ implCount' = implCount + 1
  /\ implementations_' = [implementations_ EXCEPT ![r] =
        Emplace(@, k, [id |-> implCount + 1, js_thread |-> JsThread,
                       isElectron |-> isElectron])]
  /\ UNCHANGED <<outsideInbound, blockVars, mutex_, erased, ctx>>

\* ProtocolManager::Unregister (protocol-manager.h:86-89), reached from the
\* dealloc override on whichever thread drops the instance's last reference
Unregister(t, r, k) ==
  /\ pc[t] = "idle"
  /\ t = JsThread => JsIdle
  /\ CanLock(r)
  /\ erased' = IF implementations_[r][k] = NoImpl THEN erased
               ELSE erased \cup {implementations_[r][k].id}
  /\ implementations_' = [implementations_ EXCEPT ![r][k] = NoImpl]
  /\ UNCHANGED <<outsideInbound, blockVars, mutex_, implCount, ctx>>

\* forwardInvocation: reaches thread t for the receiver registered under k; the
\* context is looked up under the registry's lock (WithLock,
\* protocol-manager.h:98-103; WithLockConst, subclass-manager.h:110-115)
ForwardLookup(t, r, k) ==
  /\ pc[t] = "idle"
  /\ t = JsThread => JsIdle
  /\ CallsBegun < MaxCalls
  /\ IF r = "protocol"
       THEN CanLock(r) /\ mutex_' = [mutex_ EXCEPT ![r].excl = {t}]
       ELSE CanLockShared(r) /\ mutex_' = [mutex_ EXCEPT ![r].shared = @ \cup {t}]
  /\ seq' = [seq EXCEPT ![t] = @ + 1]
  /\ frame' = [frame EXCEPT ![t] = [block |-> 0, alive |-> TRUE, fid |-> seq[t] + 1]]
  /\ ctx' = [ctx EXCEPT ![t] = [NoCtx EXCEPT !.registry = r, !.key = k]]
  /\ pc' = [pc EXCEPT ![t] = "f_lookup"]
  /\ UNCHANGED <<outsideInbound, g_blockRegistry, g_blockRegistryMutex, createPc, callData,
                 retSlot, signals, tsfnQueue, hpc, hcur, outcome, lastJs, outOfOrder,
                 returned, implementations_, erased, implCount>>

\* same thread and not cross-context: the direct path (forwarding-common.h:67)
TakesDirect(t, impl) == t = impl.js_thread /\ ~impl.isElectron

\* the ForwardingContext (forwarding-common.h:62-81) is filled under the lock:
\* cachedJsCallback points at the FunctionReference inside the stored
\* implementation (73-76); then the lock is released
ForwardCopy(t) ==
  /\ pc[t] = "f_lookup"
  /\ LET r == ctx[t].registry
         impl == implementations_[r][ctx[t].key] IN
       /\ mutex_' = [mutex_ EXCEPT ![r] = [excl |-> @.excl \ {t}, shared |-> @.shared \ {t}]]
       /\ IF impl = NoImpl
            THEN /\ pc' = [pc EXCEPT ![t] = "done"]
                 /\ frame' = [frame EXCEPT ![t].alive = FALSE]
                 /\ returned' = [returned EXCEPT ![t] = "not_found"]
                 /\ UNCHANGED ctx
            ELSE /\ ctx' = [ctx EXCEPT ![t].impl = impl.id,
                                       ![t].skipDirect = impl.isElectron]
                 /\ pc' = [pc EXCEPT ![t] = IF TakesDirect(t, impl) THEN "f_js"
                                                                    ELSE "f_call"]
                 /\ UNCHANGED <<frame, returned>>
  /\ UNCHANGED <<outsideInbound, g_blockRegistry, g_blockRegistryMutex, createPc, seq,
                 callData, retSlot, signals, tsfnQueue, hpc, hcur, outcome, lastJs,
                 outOfOrder, implementations_, erased, implCount>>

\* what the call through ctx.cachedJsCallback can do: the pointer dangles once
\* the implementation it points into was erased, and the call is then undefined
DirectOutcomes(t) == IF ctx[t].impl \in erased THEN JsResults \cup {"undefined"}
                                               ELSE JsResults

\* the direct path: the JS function is taken from ctx.cachedJsCallback and
\* called; its result is written into the invocation
ForwardDirect(t, res) ==
  /\ pc[t] = "f_js"
  /\ res \in DirectOutcomes(t)
  /\ Deliver(t, frame[t].fid)
  /\ outcome' = [outcome EXCEPT ![t] = res]
  /\ frame' = [frame EXCEPT ![t].alive = FALSE]
  /\ returned' = [returned EXCEPT ![t] = "direct"]
  /\ pc' = [pc EXCEPT ![t] = "done"]
  /\ UNCHANGED <<outsideInbound, g_blockRegistry, g_blockRegistryMutex, createPc, seq,
                 callData, retSlot, signals, tsfnQueue, hpc, hcur, fwdVars>>

\* the cross-thread path: an InvocationData (protocol-storage.h:28-43) that
\* points at the frame's completion mutex and flag goes to the thread-safe
\* callback, and the thread pumps
ForwardEnqueue(t) ==
  /\ pc[t] = "f_call"
  /\ tsfnQueue' = Append(tsfnQueue, [thread |-> t, fid |-> frame[t].fid, kind |-> "fwd"])
  /\ pc' = [pc EXCEPT ![t] = "x_pump"]
  /\ UNCHANGED <<outsideInbound, g_blockRegistry, g_blockRegistryMutex, createPc, seq,
                 frame, callData, retSlot, signals, hpc, hcur, outcome, lastJs,
                 outOfOrder, returned, fwdVars>>

\* CallJSCallback (method-forwarding.h:20) on the JS thread: the JS function is
\* called with the invocation's arguments
CallJSCallback(res) ==
  /\ hpc = "c_js"
  /\ Deliver(HItem.thread, HItem.fid)
  /\ outcome' = [outcome EXCEPT ![HItem.thread] = res]
  /\ hpc' = "c_signal"
  /\ UNCHANGED <<outsideInbound, g_blockRegistry, g_blockRegistryMutex, createPc, pc, seq,
                 frame, callData, retSlot, signals, tsfnQueue, hcur, returned, fwdVars>>

\* CleanupInvocationData (memory-utils.h:127-146) begins with
\* SignalInvocationComplete (protocol-storage.h:108-114): lock the completion
\* mutex, set the flag, notify
SignalInvocationComplete ==
  /\ hpc = "c_signal"
  /\ callData[HItem.thread].completionMutex = {}
  /\ callData' = [callData EXCEPT ![HItem.thread] =
                    [isComplete |-> TRUE, completionMutex |-> {JsThread}]]
  /\ signals' = [signals EXCEPT ![HItem.thread] = @ + 1]
  /\ hpc' = "c_unlock"
  /\ UNCHANGED <<outsideInbound, g_blockRegistry, g_blockRegistryMutex, createPc, pc, seq,
                 frame, retSlot, tsfnQueue, hcur, outcome, lastJs, outOfOrder, returned,
                 fwdVars>>

\* the lock_guard of SignalInvocationComplete leaves scope (protocol-storage.h:113);
\* the invocation is released and the InvocationData deleted (memory-utils.h:139-145)
CleanupInvocationData ==
  /\ hpc = "c_unlock"
  /\ callData' = [callData EXCEPT ![HItem.thread].completionMutex = {}]
  /\ hpc' = "idle"
  /\ hcur' = <<>>
  /\ UNCHANGED <<outsideInbound, g_blockRegistry, g_blockRegistryMutex, createPc, pc, seq,
                 frame, retSlot, signals, tsfnQueue, outcome, lastJs, outOfOrder,
                 returned, fwdVars>>

NextForward ==
  \/ \E r \in Registries, k \in Keys, e \in BOOLEAN : Register(r, k, e)
  \/ \E t \in Threads, k \in Keys : Unregister(t, "protocol", k)
  \/ \E t \in Threads, r \in Registries, k \in Keys : ForwardLookup(t, r, k)
  \/ \E t \in Threads : ForwardCopy(t)
  \/ \E t \in Threads, res \in JsResults \cup {"undefined"} : ForwardDirect(t, res)
  \/ \E t \in Threads : ForwardEnqueue(t)
  \/ \E res \in JsResults : CallJSCallback(res)
  \/ SignalInvocationComplete
  \/ CleanupInvocationData

(***************************************************************************)
(* The struct-encoding cache (struct-utils.h)                              *)
(***************************************************************************)
MaxStores == 2

StructEncodings == {"{CGPoint=dd}", "{_NSRange=QQ}"}

InitCache ==
  /\ cache = [e \in StructEncodings |-> 0]
  /\ cachePc = [t \in Threads |-> "idle"]
  /\ cacheKey = [t \in Threads |-> "none"]
  /\ cacheHit = [t \in Threads |-> FALSE]

\* the threads that are inside an operation on the map
InFind == {t \in Threads : cachePc[t] = "find"}
InEmplace == {t \in Threads : cachePc[t] = "emplace"}
\* an unordered_map operation of t overlaps a modification by another thread, or
\* t's modification overlaps any operation of another thread: a data race
Races(t) == \/ InEmplace \ {t} # {}
            \/ cachePc[t] = "emplace" /\ InFind \ {t} # {}

\* GetOrParseStructEncoding (struct-utils.h:284-287): the function-local static
\* map is entered with cache.find(key); nothing is locked
CacheFindBegin(t, e) ==
  /\ cachePc[t] = "idle"
  /\ cachePc' = [cachePc EXCEPT ![t] = "find"]
  /\ cacheKey' = [cacheKey EXCEPT ![t] = e]
  /\ cacheHit' = [cacheHit EXCEPT ![t] = FALSE]
  /\ UNCHANGED <<handleVars, blockVars, fwdVars, callVars, convVars, cache>>

\* struct-utils.h:287-290: find returns; a hit returns it->second.  A find that
\* races with an emplace has no defined result
CacheFindEnd(t, hit) ==
  /\ cachePc[t] = "find"
  /\ Races(t) \/ hit = (cache[cacheKey[t]] > 0)
  /\ cachePc' = [cachePc EXCEPT ![t] = IF hit THEN "idle" ELSE "parse"]
  /\ cacheHit' = [cacheHit EXCEPT ![t] = hit]
  /\ UNCHANGED <<handleVars, blockVars, fwdVars, callVars, convVars, cache, cacheKey>>

\* struct-utils.h:291: ParseStructEncodingWithNames(encoding) is evaluated and
\* cache.emplace is entered
CacheParse(t) ==
  /\ cachePc[t] = "parse"
  /\ cachePc' = [cachePc EXCEPT ![t] = "emplace"]
  /\ UNCHANGED <<handleVars, blockVars, fwdVars, callVars, convVars, cache, cacheKey, cacheHit>>

\* struct-utils.h:291-292: emplace returns.  It stores the entry when the key
\* is absent and leaves a present one; when it races it may store again
CacheEmplaceEnd(t, stores) ==
  /\ cachePc[t] = "emplace"
  /\ Races(t) \/ stores = (cache[cacheKey[t]] = 0)
  /\ stores => cache[cacheKey[t]] < MaxStores
  /\ cache' = IF stores THEN [cache EXCEPT ![cacheKey[t]] = @ + 1] ELSE cache
  /\ cachePc' = [cachePc EXCEPT ![t] = "idle"]
  /\ UNCHANGED <<handleVars, blockVars, fwdVars, callVars, convVars, cacheKey, cacheHit>>

NextCache ==
  \/ \E t \in Threads, e \in StructEncodings : CacheFindBegin(t, e)
  \/ \E t \in Threads, hit \in BOOLEAN : CacheFindEnd(t, hit)
  \/ \E t \in Threads : CacheParse(t)
  \/ \E t \in Threads, stores \in BOOLEAN : CacheEmplaceEnd(t, stores)

(***************************************************************************)
(* CallFunction (call-function.h)                                          *)
(***************************************************************************)
MaxArgs == 2

\* info.Length() counts name, returnType, argTypes, fixedArgCount and the rest
InfoLengths == 0..(4 + MaxArgs)
ArgCounts == 0..MaxArgs
FixedArgCounts == -1..MaxArgs
\* which of info[0..3] has the wrong type, if any (call-function.h:126-163)
BadArgs == {"none", "name", "returnType", "argTypes", "argTypeElement",
            "fixedArgCount"}
NoCall == [infoLength |-> 0, argCount |-> 0, fixedArgCount |-> 0]

InitCall ==
  /\ cfPc = "idle"
  /\ cfIn = NoCall
  /\ cfResolved = FALSE
  /\ cfEffects = {}
  /\ cfError = "none"

\* call-function.h:168  uint32_t providedArgs = info.Length() - 4; line 118 has
\* let only lengths of 4 and more come this far, so the subtraction cannot wrap
ProvidedArgs(infoLength) == infoLength - 4

ArityOkAtLeast(providedArgs, argCount) == providedArgs >= argCount
\* call-function.h:169  if (providedArgs != argCount) throw
ArityOk(providedArgs, argCount) == providedArgs = argCount

\* call-function.h:212-213
IsVariadic(fixedArgCount, argCount) == fixedArgCount >= 0 /\ fixedArgCount < argCount

Raise(err) ==
  /\ cfError' = err
  /\ cfPc' = "done"

\* call-function.h:115-174: the checks on info before anything is looked up
CallFunctionBegin(infoLength, bad, argCount, fixedArgCount) ==
  /\ cfPc = "idle"
  /\ cfIn' = [infoLength |-> infoLength, argCount |-> argCount,
              fixedArgCount |-> fixedArgCount]
  /\ cfResolved' = FALSE
  /\ cfEffects' = {}
  /\ IF infoLength < 4 THEN Raise("too_few_arguments")
     ELSE IF bad # "none" THEN Raise("bad_" \o bad)
     ELSE IF ~ArityOk(ProvidedArgs(infoLength), argCount) THEN Raise("arity_mismatch")
     ELSE cfError' = "none" /\ cfPc' = "lookup"
  /\ UNCHANGED <<handleVars, blockVars, fwdVars, cacheVars, convVars>>

\* call-function.h:181-188: dlsym(RTLD_DEFAULT, name)
CallFunctionLookup(resolves) ==
  /\ cfPc = "lookup"
  /\ cfResolved' = resolves
  /\ IF resolves THEN cfPc' = "prepare" /\ cfError' = cfError
                 ELSE Raise("symbol_not_found")
  /\ UNCHANGED <<handleVars, blockVars, fwdVars, cacheVars, convVars, cfIn, cfEffects>>

\* call-function.h:193-230: the ffi types are built and the cif prepared
CallFunctionPrepare(status) ==
  /\ cfPc = "prepare"
  /\ cfEffects' = cfEffects \cup
       {"ffi_types",
        IF IsVariadic(cfIn.fixedArgCount, cfIn.argCount) THEN "ffi_prep_cif_var"
                                                         ELSE "ffi_prep_cif"}
  /\ IF status = "FFI_OK" THEN cfPc' = "marshal" /\ cfError' = cfError
                          ELSE Raise("prepare_failed")
  /\ UNCHANGED <<handleVars, blockVars, fwdVars, cacheVars, convVars, cfIn, cfResolved>>

\* call-function.h:232-243: ExtractFunctionArgument for each argument; a
\* conversion may throw
CallFunctionMarshal(ok) ==
  /\ cfPc = "marshal"
  /\ cfEffects' = IF cfIn.argCount > 0 THEN cfEffects \cup {"marshal"} ELSE cfEffects
  /\ IF ok \/ cfIn.argCount = 0 THEN cfPc' = "call" /\ cfError' = cfError
                                ELSE Raise("bad_argument")
  /\ UNCHANGED <<handleVars, blockVars, fwdVars, cacheVars, convVars, cfIn, cfResolved>>

\* call-function.h:245-274: the return buffer, ffi_call, the converted result
CallFunctionCall ==
  /\ cfPc = "call"
  /\ cfEffects' = cfEffects \cup {"ffi_call"}
  /\ cfPc' = "done"
  /\ UNCHANGED <<handleVars, blockVars, fwdVars, cacheVars, convVars, cfIn, cfResolved, cfError>>

\* the JS caller has its result or its exception
CallFunctionReturn ==
  /\ cfPc = "done"
  /\ cfPc' = "idle"
  /\ cfIn' = NoCall
  /\ cfResolved' = FALSE
  /\ cfEffects' = {}
  /\ cfError' = "none"
  /\ UNCHANGED <<handleVars, blockVars, fwdVars, cacheVars, convVars>>

NextCall ==
  \/ \E n \in InfoLengths, bad \in BadArgs, c \in ArgCounts, f \in FixedArgCounts :
       CallFunctionBegin(n, bad, c, f)
  \/ \E resolves \in BOOLEAN : CallFunctionLookup(resolves)
  \/ \E status \in {"FFI_OK", "FFI_BAD_TYPEDEF"} : CallFunctionPrepare(status)
  \/ \E ok \in BOOLEAN : CallFunctionMarshal(ok)
  \/ CallFunctionCall
  \/ CallFunctionReturn

(***************************************************************************)
(* The conversion layer: functions of their inputs.  Each specification    *)
(* below applies one family of them to every input of a bounded set and    *)
(* keeps the last application in its variable.                             *)
(***************************************************************************)
NoReturnBuffer == [path |-> "none", code |-> "v", returnSize |-> 0, bufferSize |-> 0]
NoParsed == [desc |-> <<>>, encoding |-> <<>>, result |-> <<>>]
NoStructIo == [stage |-> "none", encoding |-> <<>>, shape |-> "none", js |-> <<>>,
               packed |-> <<>>, unpacked |-> <<>>]
NoRetInstall == [path |-> "none", code |-> "v", result |-> <<>>, outcome |-> <<>>]
NoToJs == [path |-> "none", encoding |-> <<>>, raw |-> 0, js |-> <<>>, newInstanceOf |-> {}]
NoBlockSig == [desc |-> <<>>, encoding |-> <<>>, result |-> <<>>]

\* sizeof(ForwardingPipelineCache::typeEncoding)
TypeEncodingSize == 128
\* the threads that run the forwarding pipeline
CacheThreads == {JsThread, 1}

\* InvocationDataGuard objects and InvocationData allocations
MaxGuards == 3
MaxData == 2
GuardSlots == 1..MaxGuards
DataSlots == 1..MaxData
NoGuard == [st |-> "none", data_ |-> 0, released_ |-> FALSE, movedFrom |-> FALSE]
NoData == [st |-> "none", invocation |-> "nil", deletes |-> 0, invocationReleases |-> 0,
           releaseCalled |-> FALSE]

\* FFIArgumentContext (super-call-helpers.h:26-31) with the number of
\* buffers make_unique has given out; a buffer is named by that number
NoFFIArgumentContext ==
  [argFFITypes |-> <<>>, argValues |-> <<>>, argBuffers |-> <<>>,
   allocatedTypes |-> <<>>, made |-> 0]
\* the keys the registry interface is called with, and no key
RegistryKeys == {"k1", "k2"}
NoKey == "none"
NoBlockCif == [desc |-> <<>>, encoding |-> <<>>, sig |-> <<>>, returnFFIType |-> <<>>,
               argFFITypes |-> <<>>, ffiTypeGuard |-> <<>>]
NoPipelineCache == [cache |-> [key |-> 0, selector |-> 0, typeEncoding |-> <<>>, valid |-> FALSE],
                    stored |-> <<>>]
NoCallPath == [path |-> "none", encoding |-> <<>>, ffiType |-> <<>>, error |-> FALSE, js |-> <<>>]
NoClassRegistry == [subclasses_ |-> [c \in {} |-> 0], lookup |-> <<>>]
NoInvocationGuards == [guard |-> [g \in GuardSlots |-> NoGuard], data |-> [d \in DataSlots |-> NoData]]
NoBlockFactory == [registry |-> <<>>, closures |-> <<>>, returned |-> <<>>]
NoSuperCall == [stage |-> "none", methodSig |-> <<>>, info |-> <<>>, c |-> NoFFIArgumentContext,
                ended |-> {}]
NoFunctionCall == [stage |-> "none", argTypes |-> <<>>, info |-> <<>>, c |-> NoFFIArgumentContext,
                   ended |-> {}]
NoEncodingView == [path |-> "none", typeEncoding |-> <<>>, stale |-> "kept", simplified |-> [buffer |-> FALSE, in |-> <<>>, at |-> 1],
                   fields |-> <<>>, uses |-> <<>>, totalSize |-> 0]
NoRegistryApi == [map |-> [r \in Registries |-> [k \in RegistryKeys |-> NoImpl]],
                  keys |-> [r \in Registries |-> {}], made |-> 0,
                  last |-> [op |-> "none", registry |-> "protocol", k |-> NoKey, impl |-> NoImpl,
                            result |-> FALSE, before |-> [k \in RegistryKeys |-> NoImpl]]]

InitUnit ==
  /\ blockCif = NoBlockCif
  /\ pipelineCache = [t \in CacheThreads |-> NoPipelineCache]
  /\ callPath = NoCallPath
  /\ classRegistry = NoClassRegistry
  /\ invocationGuards = NoInvocationGuards
  /\ blockFactory = NoBlockFactory
  /\ superCall = NoSuperCall
  /\ functionCall = NoFunctionCall
  /\ encodingView = NoEncodingView
  /\ registryApi = NoRegistryApi

\* everything outside the unit variables, and outside each of them
outsideUnit == <<handleVars, blockVars, fwdVars, cacheVars, callVars,
                 returnBuffer, parsed, structIo, retInstall, toJs, blockSig>>
outsideBlockCif == <<outsideUnit, pipelineCache, callPath, classRegistry, invocationGuards, blockFactory, superCall, functionCall, encodingView, registryApi>>
outsidePipelineCache == <<outsideUnit, blockCif, callPath, classRegistry, invocationGuards, blockFactory, superCall, functionCall, encodingView, registryApi>>
outsideCallPath == <<outsideUnit, blockCif, pipelineCache, classRegistry, invocationGuards, blockFactory, superCall, functionCall, encodingView, registryApi>>
outsideClassRegistry == <<outsideUnit, blockCif, pipelineCache, callPath, invocationGuards, blockFactory, superCall, functionCall, encodingView, registryApi>>
outsideInvocationGuards == <<outsideUnit, blockCif, pipelineCache, callPath, classRegistry, blockFactory, superCall, functionCall, encodingView, registryApi>>
outsideBlockFactory == <<outsideUnit, blockCif, pipelineCache, callPath, classRegistry, invocationGuards, superCall, functionCall, encodingView, registryApi>>
outsideSuperCall == <<outsideUnit, blockCif, pipelineCache, callPath, classRegistry, invocationGuards, blockFactory, functionCall, encodingView, registryApi>>
outsideFunctionCall == <<outsideUnit, blockCif, pipelineCache, callPath, classRegistry, invocationGuards, blockFactory, superCall, encodingView, registryApi>>
outsideEncodingView == <<outsideUnit, blockCif, pipelineCache, callPath, classRegistry, invocationGuards, blockFactory, superCall, functionCall, registryApi>>
outsideRegistryApi == <<outsideUnit, blockCif, pipelineCache, callPath, classRegistry, invocationGuards, blockFactory, superCall, functionCall, encodingView>>

InitConv ==
  /\ returnBuffer = NoReturnBuffer
  /\ parsed = NoParsed
  /\ structIo = NoStructIo
  /\ retInstall = NoRetInstall
  /\ toJs = NoToJs
  /\ blockSig = NoBlockSig
  /\ InitUnit

(***************************************************************************)
(* Type encodings (type-conversion.h) and the struct parser                *)
(* (struct-utils.h).  An encoding is a sequence of characters.             *)
(***************************************************************************)
SimpleCodes == {"c", "i", "s", "l", "q", "C", "I", "S", "L", "Q", "f", "d", "B",
                "@", "#", ":", "*", "^", "v", "?"}

\* ffi-utils.h:113-140 on an LP64 platform; unknown codes and v give 0
GetSizeForTypeEncoding(typeCode) ==
  CASE typeCode \in {"c", "C", "B"} -> 1
    [] typeCode \in {"s", "S"} -> 2
    [] typeCode \in {"i", "I", "f"} -> 4
    [] typeCode \in {"l", "q", "L", "Q", "d", "@", "#", ":", "*", "^"} -> 8
    [] OTHER -> 0

Qualifiers == {"r", "n", "N", "o", "O", "R", "V"}
Quote == "\""
Openers == {"{", "(", "["}
Closers == {"}", ")", "]"}

\* s[i], or the terminating NUL when i is past the end
CharAt(s, i) == IF i \in 1..Len(s) THEN s[i] ELSE "NUL"

\* SimplifyTypeEncoding (type-conversion.h:38-58): the position of the first
\* character that is no qualifier
RECURSIVE SimplifyTypeEncoding(_, _)
SimplifyTypeEncoding(s, i) ==
  IF CharAt(s, i) \in Qualifiers THEN SimplifyTypeEncoding(s, i + 1) ELSE i

\* the position of the first character c at or after i, or Len(s) + 1
RECURSIVE FindChar(_, _, _)
FindChar(s, i, c) ==
  IF i > Len(s) \/ s[i] = c THEN i ELSE FindChar(s, i + 1, c)

\* the least of a set of positions
Least(S) == CHOOSE m \in S : \A x \in S : m <= x

\* the brackets still open before s[k], depth of them being open before s[i]
OpenBefore(s, i, depth, k) ==
  depth + Cardinality({j \in i..(k - 1) : s[j] \in Openers \cup {"<"}})
        - Cardinality({j \in i..(k - 1) : s[j] \in Closers \cup {">"}})
\* the position just past the bracket that closes depth open brackets: past
\* the first closer met with one bracket open, or past the string
SkipBalanced(s, i, depth) ==
  IF i > Len(s) THEN i
  ELSE Least({Len(s) + 1} \cup
             {k + 1 : k \in {j \in i..Len(s) : /\ s[j] \in Closers \cup {">"}
                                              /\ OpenBefore(s, i, depth, j) = 1}})

\* SkipOneTypeEncoding: the position just past one balanced encoding token that
\* starts at i: nested {...}, (...), [...], ^T, "name"T, @?<...>, or one code
RECURSIVE SkipOneEnd(_, _)
SkipOneEnd(s, i) ==
  LET j == SimplifyTypeEncoding(s, i)
      c == CharAt(s, j) IN
    IF j > Len(s) THEN j
    ELSE IF c \in Openers THEN SkipBalanced(s, j + 1, 1)
    ELSE IF c = "^" THEN SkipOneEnd(s, j + 1)
    ELSE IF c = Quote THEN SkipOneEnd(s, FindChar(s, j + 1, Quote) + 1)
    ELSE IF c = "@" /\ CharAt(s, j + 1) = "?"
           THEN IF CharAt(s, j + 2) = "<" THEN SkipBalanced(s, j + 3, 1) ELSE j + 2
    ELSE j + 1

Min(a, b) == IF a < b THEN a ELSE b
Max(a, b) == IF a < b THEN b ELSE a
\* the characters of s from position i up to, not including, position j
Slice(s, i, j) == SubSeq(s, i, Min(j, Len(s) + 1) - 1)

\* ParseStructEncodingHeader: {name=fields} gives the name and where the fields
\* start; {name} and {name=} are empty structs; anything else is invalid
\* (fieldsStart = 0 and not empty)
ParseStructEncodingHeader(s) ==
  LET eq == FindChar(s, 2, "=")
      close == FindChar(s, 2, "}") IN
    IF CharAt(s, 1) \notin {"{", "("} \/ close > Len(s)
      THEN [name |-> <<>>, fieldsStart |-> 0, empty |-> FALSE]
    ELSE IF close < eq
      THEN [name |-> Slice(s, 2, close), fieldsStart |-> 0, empty |-> TRUE]
    ELSE IF eq + 1 = close
      THEN [name |-> Slice(s, 2, eq), fieldsStart |-> 0, empty |-> TRUE]
    ELSE [name |-> Slice(s, 2, eq), fieldsStart |-> eq + 1, empty |-> FALSE]

\* the C layout rule of the runtime: the next multiple of alignment
RoundUp(offset, alignment) == ((offset + alignment - 1) \div alignment) * alignment

\* NSGetSizeAndAlignment of Foundation on an LP64 platform: scalars by their C
\* type, a struct by the C layout of its fields (quoted names are skipped)
RECURSIVE NSGetSizeAndAlignment(_)
RECURSIVE LayoutFrom(_, _, _, _)
NSGetSizeAndAlignment(s) ==
  LET i == SimplifyTypeEncoding(s, 1)
      c == CharAt(s, i) IN
    IF c = "{" THEN
      LET h == ParseStructEncodingHeader(Slice(s, i, Len(s) + 1)) IN
        IF h.fieldsStart = 0 THEN [size |-> 0, alignment |-> 1]
        ELSE LayoutFrom(Slice(s, i, Len(s) + 1), h.fieldsStart, 0, 1)
    ELSE IF c = Quote THEN
      NSGetSizeAndAlignment(Slice(s, FindChar(s, i + 1, Quote) + 1, Len(s) + 1))
    ELSE [size |-> GetSizeForTypeEncoding(c), alignment |-> GetSizeForTypeEncoding(c)]
LayoutFrom(s, i, offset, alignment) ==
  IF i > Len(s) \/ s[i] = "}"
    THEN [size |-> RoundUp(offset, alignment), alignment |-> alignment]
    ELSE LET j == SkipOneEnd(s, i)
             f == NSGetSizeAndAlignment(Slice(s, i, j)) IN
           LayoutFrom(s, j, RoundUp(offset, f.alignment) + f.size,
                      Max(alignment, f.alignment))

\* "field", the prefix of a generated positional name
FieldPrefix == <<"f", "i", "e", "l", "d">>
Digits == <<"0", "1", "2", "3", "4", "5", "6", "7", "8", "9">>
\* std::to_string of a small non-negative number
RECURSIVE to_string(_)
to_string(n) == IF n < 10 THEN <<Digits[n + 1]>>
                         ELSE to_string(n \div 10) \o <<Digits[(n % 10) + 1]>>
\* name.substr(0, 5) == "field" (struct-utils.h:215, 228)
StartsWithField(name) == Len(name) >= 5 /\ SubSeq(name, 1, 5) = FieldPrefix

\* KNOWN_STRUCT_FIELDS and LookupKnownFieldNames (struct-utils.h:41-72); <<>>
\* stands for the nullptr of an unknown name
LookupKnownFieldNames(structName) ==
  IF structName = <<"C", "G", "P", "o", "i", "n", "t">>
    THEN <<<<"x">>, <<"y">>>> ELSE
  IF structName = <<"N", "S", "P", "o", "i", "n", "t">>
    THEN <<<<"x">>, <<"y">>>> ELSE
  IF structName = <<"C", "G", "S", "i", "z", "e">>
    THEN <<<<"w", "i", "d", "t", "h">>, <<"h", "e", "i", "g", "h", "t">>>> ELSE
  IF structName = <<"N", "S", "S", "i", "z", "e">>
    THEN <<<<"w", "i", "d", "t", "h">>, <<"h", "e", "i", "g", "h", "t">>>> ELSE
  IF structName = <<"C", "G", "R", "e", "c", "t">>
    THEN <<<<"o", "r", "i", "g", "i", "n">>, <<"s", "i", "z", "e">>>> ELSE
  IF structName = <<"N", "S", "R", "e", "c", "t">>
    THEN <<<<"o", "r", "i", "g", "i", "n">>, <<"s", "i", "z", "e">>>> ELSE
  IF structName = <<"C", "G", "V", "e", "c", "t", "o", "r">>
    THEN <<<<"d", "x">>, <<"d", "y">>>> ELSE
  IF structName = <<"_", "N", "S", "R", "a", "n", "g", "e">>
    THEN <<<<"l", "o", "c", "a", "t", "i", "o", "n">>, <<"l", "e", "n", "g", "t", "h">>>> ELSE
  IF structName = <<"N", "S", "R", "a", "n", "g", "e">>
    THEN <<<<"l", "o", "c", "a", "t", "i", "o", "n">>, <<"l", "e", "n", "g", "t", "h">>>> ELSE
  IF structName = <<"N", "S", "E", "d", "g", "e", "I", "n", "s", "e", "t", "s">>
    THEN <<<<"t", "o", "p">>, <<"l", "e", "f", "t">>, <<"b", "o", "t", "t", "o", "m">>, <<"r", "i", "g", "h", "t">>>> ELSE
  IF structName = <<"N", "S", "D", "i", "r", "e", "c", "t", "i", "o", "n", "a", "l", "E", "d", "g", "e", "I", "n", "s", "e", "t", "s">>
    THEN <<<<"t", "o", "p">>, <<"l", "e", "a", "d", "i", "n", "g">>, <<"b", "o", "t", "t", "o", "m">>, <<"t", "r", "a", "i", "l", "i", "n", "g">>>> ELSE
  IF structName = <<"C", "G", "A", "f", "f", "i", "n", "e", "T", "r", "a", "n", "s", "f", "o", "r", "m">>
    THEN <<<<"a">>, <<"b">>, <<"c">>, <<"d">>, <<"t", "x">>, <<"t", "y">>>> ELSE
  <<>>

\* ParseStructFields (struct-utils.h:133-185) from position i of s, the next
\* field having index fieldIndex
RECURSIVE ParseStructFields(_, _, _)
ParseStructFields(s, i, fieldIndex) ==
  LET j == SimplifyTypeEncoding(s, i) IN
    IF j > Len(s) \/ s[j] = "}" THEN <<>>
    ELSE
      LET quoted == s[j] = Quote
          nameEnd == FindChar(s, j + 1, Quote)
          name == IF quoted THEN Slice(s, j + 1, nameEnd)
                            ELSE FieldPrefix \o to_string(fieldIndex)
          k == IF ~quoted THEN j
               ELSE IF CharAt(s, nameEnd) = Quote THEN nameEnd + 1 ELSE nameEnd
          e == SkipOneEnd(s, k)
          typeEncoding == Slice(s, k, e)
          isStruct == typeEncoding # <<>> /\ typeEncoding[1] = "{"
          subHeader == ParseStructEncodingHeader(typeEncoding)
          sa == NSGetSizeAndAlignment(typeEncoding)
      IN <<[name |-> name, typeEncoding |-> typeEncoding, offset |-> 0,
            size |-> sa.size, alignment |-> sa.alignment, isStruct |-> isStruct,
            subfields |-> IF isStruct /\ subHeader.fieldsStart # 0
                            THEN ParseStructFields(typeEncoding, subHeader.fieldsStart, 0)
                            ELSE <<>>]>>
         \o (IF e > k THEN ParseStructFields(s, e, fieldIndex + 1) ELSE <<>>)

AlignUpNever(currentOffset, alignment) == currentOffset
\* struct-utils.h:103-106: (currentOffset + alignment - 1) & ~(alignment - 1),
\* for the powers of two that alignments are
AlignUp(currentOffset, alignment) ==
  IF alignment > 0
    THEN (currentOffset + alignment - 1) - ((currentOffset + alignment - 1) % alignment)
    ELSE currentOffset

\* ComputeFieldOffsets (struct-utils.h:99-115)
RECURSIVE ComputeFieldOffsets(_, _, _)
ComputeFieldOffsets(fields, n, currentOffset) ==
  IF n > Len(fields) THEN <<>>
  ELSE LET field == fields[n]
           offset == AlignUp(currentOffset, field.alignment) IN
         <<[field EXCEPT !.offset = offset,
                         !.subfields = IF field.isStruct /\ field.subfields # <<>>
                                         THEN ComputeFieldOffsets(field.subfields, 1, 0)
                                         ELSE field.subfields]>>
         \o ComputeFieldOffsets(fields, n + 1, offset + field.size)

\* fields with the names of names, in order (struct-utils.h:225-227, 252-254)
WithNames(fields, names) ==
  [i \in DOMAIN fields |-> [fields[i] EXCEPT !.name = names[i]]]

\* the name between { and = or } of a nested field (struct-utils.h:240-248)
NestedName(typeEncoding) ==
  IF Len(typeEncoding) > 1 /\ typeEncoding[1] = "{"
    THEN Slice(typeEncoding, 2, Min(FindChar(typeEncoding, 2, "="),
                                    FindChar(typeEncoding, 2, "}")))
    ELSE <<>>

\* struct-utils.h:235-258: known names for the subfields of one top-level field
ApplyNestedNames(field) ==
  IF /\ field.isStruct /\ field.subfields # <<>>
     /\ field.subfields[1].name # <<>>
     /\ StartsWithField(field.subfields[1].name)
     /\ NestedName(field.typeEncoding) # <<>>
     /\ Len(LookupKnownFieldNames(NestedName(field.typeEncoding))) = Len(field.subfields)
    THEN [field EXCEPT !.subfields =
            WithNames(@, LookupKnownFieldNames(NestedName(field.typeEncoding)))]
    ELSE field

\* ParseStructEncodingWithNames (struct-utils.h:197-275)
ParseStructEncodingWithNames(s) ==
  LET header == ParseStructEncodingHeader(s)
      fields == ParseStructFields(s, header.fieldsStart, 0)
      knownNames == LookupKnownFieldNames(header.name)
      named == IF /\ fields # <<>> /\ StartsWithField(fields[1].name)
                  /\ knownNames # <<>> /\ Len(knownNames) = Len(fields)
                 THEN WithNames(fields, knownNames) ELSE fields
      nested == [i \in DOMAIN named |-> ApplyNestedNames(named[i])]
      sa == NSGetSizeAndAlignment(s)
  IN IF header.fieldsStart = 0 /\ ~header.empty
       \* invalid: the result is returned as constructed, its sizes never set
       THEN [valid |-> FALSE, name |-> <<>>, fields |-> <<>>, totalSize |-> 0,
             alignment |-> 0]
     ELSE IF header.empty
       THEN [valid |-> TRUE, name |-> header.name, fields |-> <<>>, totalSize |-> 0,
             alignment |-> 1]
     ELSE [valid |-> TRUE, name |-> header.name,
           fields |-> ComputeFieldOffsets(nested, 1, 0),
           totalSize |-> sa.size, alignment |-> sa.alignment]

(***************************************************************************)
(* The struct encodings that are parsed: descriptions of structs, and the  *)
(* encoding the compiler or the runtime writes for each                    *)
(***************************************************************************)
CGPointName == <<"C", "G", "P", "o", "i", "n", "t">>
CGSizeName == <<"C", "G", "S", "i", "z", "e">>
CGRectName == <<"C", "G", "R", "e", "c", "t">>
NSRangeName == <<"_", "N", "S", "R", "a", "n", "g", "e">>
\* two names that are not in the table
PairName == <<"P", "a", "i", "r">>
OuterName == <<"O", "u", "t", "e", "r">>

\* field names an encoding can quote: ordinary ones, and ones that begin "field"
OwnNames == <<<<"p">>, <<"q">>, <<"r">>>>
FieldishNames == <<<<"f", "i", "e", "l", "d", "A">>, <<"f", "i", "e", "l", "d", "B">>, <<"f", "i", "e", "l", "d", "C">>>>
QuotedNames(n) == {<<>>, SubSeq(OwnNames, 1, n), SubSeq(FieldishNames, 1, n)}

Leaves(codes) == [i \in DOMAIN codes |-> [leaf |-> codes[i]]]
ScalarLists == {<<"d", "d">>, <<"Q", "Q">>, <<"c", "q">>, <<"i", "c", "s">>,
                <<"c", "i", "c">>, <<"s", "c", "d">>, <<"d">>}

\* structs of scalars
FlatStructs ==
  UNION {[name : {CGPointName, CGSizeName, NSRangeName, PairName},
          names : QuotedNames(Len(codes)),
          fields : {Leaves(codes)}] : codes \in ScalarLists}
\* what a struct of structs is made of
InnerFields ==
  {d \in FlatStructs : /\ d.name \in {CGPointName, PairName}
                       /\ d.fields \in {Leaves(<<"d", "d">>), Leaves(<<"c", "q">>)}}
    \cup {[name |-> CGSizeName, names |-> <<>>, fields |-> Leaves(<<"d", "d">>)]}
    \cup {[leaf |-> "d"], [leaf |-> "c"]}
NestedStructs ==
  [name : {CGRectName, OuterName}, names : QuotedNames(2),
   fields : {<<f, g>> : f \in InnerFields, g \in InnerFields}]
\* structs that hold a struct of structs
UnquotedRects ==
  {d \in NestedStructs :
     /\ d.names = <<>>
     /\ \A i \in 1..2 : /\ "leaf" \notin DOMAIN d.fields[i]
                        /\ d.fields[i].names = <<>>
                        /\ d.fields[i].fields = Leaves(<<"d", "d">>)}
DeepStructs ==
  [name : {OuterName}, names : {<<>>, SubSeq(OwnNames, 1, 2)},
   fields : {<<r, l>> : r \in UnquotedRects, l \in {[leaf |-> "c"], [leaf |-> "d"]}}]
StructDescriptions == FlatStructs \cup NestedStructs \cup DeepStructs

IsLeaf(f) == "leaf" \in DOMAIN f

\* the encoding of a described struct: {name=fields}, each field preceded by
\* its quoted name when the encoding carries names (struct-utils.h:11-15)
RECURSIVE EncodeStruct(_)
RECURSIVE EncodeFields(_, _)
EncodeStruct(d) == <<"{">> \o d.name \o <<"=">> \o EncodeFields(d, 1) \o <<"}">>
EncodeFields(d, i) ==
  IF i > Len(d.fields) THEN <<>>
  ELSE (IF d.names # <<>> THEN <<Quote>> \o d.names[i] \o <<Quote>> ELSE <<>>)
       \o (IF IsLeaf(d.fields[i]) THEN <<d.fields[i].leaf>>
                                  ELSE EncodeStruct(d.fields[i]))
       \o EncodeFields(d, i + 1)

outsideParsed == <<outsideConv, returnBuffer, structIo, retInstall, toJs, blockSig>>

\* one call of ParseStructEncodingWithNames, on the encoding of d; the parser
\* is a pure function, so a behaviour is one call
ParseStruct(d) ==
  /\ parsed = NoParsed
  /\ parsed' = [desc |-> d, encoding |-> EncodeStruct(d),
                result |-> ParseStructEncodingWithNames(EncodeStruct(d))]
  /\ UNCHANGED outsideParsed

NextParsed == \E d \in StructDescriptions : ParseStruct(d)

(***************************************************************************)
(* Return buffers of CallFunction and callSuper (call-function.h,          *)
(* super-call-helpers.h, ffi-utils.h)                                      *)
(***************************************************************************)
MaxStructSize == 48

\* constants.h:29
kMinReturnBufferSize == 16
\* sizeof(ffi_arg), the cell libffi writes an integer return into (LP64)
SizeofFfiArg == 8

\* the return encodings a call can declare: a simple code, or a struct whose
\* size the runtime reports as structSize (0: an empty struct)
ReturnEncodings ==
  [code : SimpleCodes, structSize : {0}] \cup [code : {"{"}, structSize : 0..MaxStructSize]

\* GetFFITypeForEncoding's *outSize (ffi-utils.h:255-280; 166-172, 190-193, 209-216
\* for a struct, which leaves it untouched when the struct has no fields)
ReturnSizeOf(enc) == IF enc.code = "{" THEN enc.structSize
                                      ELSE GetSizeForTypeEncoding(enc.code)

\* call-function.h:250-257
CallFunctionBufferSize(returnSize) ==
  LET bufferSize == IF returnSize > 0 THEN returnSize ELSE kMinReturnBufferSize
  IN IF bufferSize < SizeofFfiArg THEN SizeofFfiArg ELSE bufferSize

\* super-call-helpers.h:282
ExecuteFFIBufferSize(returnSize) ==
  IF returnSize > 0 THEN returnSize ELSE kMinReturnBufferSize

outsideReturnBuffer == <<outsideConv, parsed, structIo, retInstall, toJs, blockSig>>

\* CallFunction, from the return type to ffi_call (call-function.h:195-198, 245-265)
CallFunctionReturnBuffer(enc) ==
  /\ returnBuffer' = [path |-> "CallFunction", code |-> enc.code,
                      returnSize |-> ReturnSizeOf(enc),
                      bufferSize |-> IF enc.code = "v" THEN 0
                                     ELSE CallFunctionBufferSize(ReturnSizeOf(enc))]
  /\ UNCHANGED outsideReturnBuffer

\* callSuper: PrepareFFIArgumentTypes (super-call-helpers.h:59) gives the return
\* size that ExecuteFFICallAndConvert (271-296) sizes its buffer with
ExecuteFFICallAndConvert(enc) ==
  /\ returnBuffer' = [path |-> "callSuper", code |-> enc.code,
                      returnSize |-> ReturnSizeOf(enc),
                      bufferSize |-> IF enc.code = "v" THEN 0
                                     ELSE ExecuteFFIBufferSize(ReturnSizeOf(enc))]
  /\ UNCHANGED outsideReturnBuffer

NextReturnBuffer ==
  \/ \E enc \in ReturnEncodings : CallFunctionReturnBuffer(enc)
  \/ \E enc \in ReturnEncodings : ExecuteFFICallAndConvert(enc)

NextHandle ==
  \/ \E h \in HandleSlots, nargs \in 0..2, isExternal \in BOOLEAN, arg \in Objs \cup {Nil} :
       ObjcObjectCtor(h, nargs, isExternal, arg)
  \/ \E h \in HandleSlots : ObjcObjectDtor(h)
  \/ \E o \in Objs, d \in {-1, 1} : OtherOwner(o, d)

Init == InitHandle /\ InitBlock /\ InitForward /\ InitCache /\ InitCall /\ InitConv

SpecHandle == Init /\ [][NextHandle]_vars
SpecBlock == Init /\ [][NextBlock]_vars
\* every inbound path: block invocations and forwarded invocations
SpecInbound == Init /\ [][NextBlock \/ NextForward]_vars
SpecCache == Init /\ [][NextCache]_vars
SpecCall == Init /\ [][NextCall]_vars
SpecReturnBuffer == Init /\ [][NextReturnBuffer]_vars
SpecParsed == Init /\ [][NextParsed]_vars
\* the JS thread keeps running whatever it is in and keeps servicing its queue;
\* a pumping thread keeps ticking
FairSpecBlock ==
  /\ SpecBlock
  /\ WF_vars(JsThreadStep)
  /\ \A t \in BgThreads : WF_vars(PumpRunLoopUntilComplete(t))

(***************************************************************************)
(* Claims                                                                  *)
(***************************************************************************)
Wrapped(h) == handles[h].st \in {"live", "dead"} /\ handles[h].wrapped # Nil

\* C1: retain parity of ObjcObject.  A handle constructed from a non-nil id has
\* issued exactly one objc_retain, and exactly one objc_release once destroyed;
\* a handle of nil (or a refused construction) has issued neither; so each
\* object's retain count is its pre-wrap value plus its live handles.
C1_RetainParity ==
  /\ \A o \in Objs : retainCount[o] = preWrap[o] + Cardinality(LiveHandlesOf(o))
  /\ \A h \in HandleSlots :
       /\ handles[h].retains = IF Wrapped(h) THEN 1 ELSE 0
       /\ handles[h].releases = IF Wrapped(h) /\ handles[h].st = "dead" THEN 1 ELSE 0

\* one object wrapped twice, one handle collected, and a handle of nil collected
C1_Witness ==
  \E h1, h2, h3 \in HandleSlots :
    /\ handles[h1].st = "dead" /\ handles[h1].wrapped = "o1"
    /\ handles[h2].st = "live" /\ handles[h2].objcObject = "o1"
    /\ handles[h3].st = "dead" /\ handles[h3].wrapped = Nil

\* the calls handed to the JS thread and not yet finished by BlockTSFNCallback
Outstanding == {tsfnQueue[i] : i \in DOMAIN tsfnQueue} \cup {hcur[i] : i \in DOMAIN hcur}

\* C2: after a successful enqueue the invoking thread stays inside
\* BlockInvokeCallback until BlockTSFNCallback has set the completion flag: as
\* long as the JS thread may still touch a BlockCallData, the frame that holds
\* it is alive and pumping, and a thread that came back from the pump found the
\* flag set by the handler.
C2_FrameOutlivesHandler ==
  /\ \A item \in Outstanding : ~Stale(item) /\ pc[item.thread] = "x_pump"
  /\ \A t \in Threads :
       returned[t] = "completed" => callData[t].isComplete /\ signals[t] >= 1

C2_Witness == \E t \in BgThreads : pc[t] = "done" /\ returned[t] = "completed"

Info(t) == g_blockRegistry[frame[t].block]

\* C3: the wrapped JS function runs only on the block's js_thread: in place
\* when the invoker is that thread, through the thread-safe callback (on the JS
\* thread, for another thread's invocation) otherwise.
C3_JsOnlyOnJsThread ==
  /\ \A t \in Threads : pc[t] = "d_js" => t = Info(t).js_thread
  /\ \A t \in Threads : pc[t] \in {"x_call", "x_pump"} => t # Info(t).js_thread
  /\ hpc = "h_js" => /\ JsThread = Info(HItem.thread).js_thread
                     /\ HItem.thread # JsThread

\* the JS thread has invoked the block in place and is now running it for a
\* background thread
C3_Witness == hpc = "h_js" /\ returned[JsThread] = "direct" /\ HItem.thread \in BgThreads

\* C4: the invocations of one thread reach JS in submission order, each one
\* finished on the JS side before the next is enqueued: a thread never has two
\* calls outstanding, an outstanding call is its latest, and none reached JS
\* after a later one.
C4_SubmissionOrder ==
  /\ ~outOfOrder
  /\ \A i, j \in DOMAIN tsfnQueue : i # j => tsfnQueue[i].thread # tsfnQueue[j].thread
  /\ \A i \in DOMAIN tsfnQueue : hcur # <<>> => tsfnQueue[i].thread # HItem.thread
  /\ \A item \in Outstanding :
       item.fid = seq[item.thread] /\ lastJs[item.thread] <= item.fid

\* a background thread's second invocation has reached JS after its first
C4_Witness == \E t \in BgThreads : lastJs[t] = 2 /\ seq[t] = 2 /\ returned[t] = "completed"

\* C5: with the JS thread servicing its queue and the JS function returning or
\* throwing, a thread that pumps for a cross-thread invocation gets back to its
\* ObjC caller.
C5_PumpReturns ==
  \A t \in BgThreads : (pc[t] = "x_pump") ~> (pc[t] = "done" /\ returned[t] = "completed")

\* a cross-thread invocation whose JS function threw has returned
C5_Witness ==
  \E t \in BgThreads : pc[t] = "done" /\ returned[t] = "completed" /\ outcome[t] = "throw"

\* C6: when the JS function throws, on either path, nothing is written to the
\* return slot, completion is signalled exactly once on the cross-thread path,
\* and the trampoline returns normally.
C6_ThrowIsContained ==
  /\ \A t \in Threads : outcome[t] = "throw" => retSlot[t] = "zero"
  /\ \A t \in Threads : signals[t] <= 1
  /\ \A t \in Threads : pc[t] = "done" /\ outcome[t] = "throw" =>
       \/ returned[t] = "direct" /\ signals[t] = 0
       \/ returned[t] = "completed" /\ signals[t] = 1

\* the JS function of a non-void block threw on both paths
C6_Witness ==
  /\ pc[JsThread] = "done" /\ outcome[JsThread] = "throw"
  /\ Info(JsThread).returnType = "q"
  /\ \E t \in BgThreads : /\ pc[t] = "done" /\ outcome[t] = "throw"
                          /\ returned[t] = "completed" /\ Info(t).returnType = "q"

\* ---- C7 -----------------------------------------------------------------
\* thread t is inside a call of a JS function: on the direct path of a block or
\* of a forwarded invocation, or as the JS thread inside a queued-call handler
InJs(t) == \/ pc[t] \in {"d_js", "f_js"}
           \/ t = JsThread /\ hpc \in {"h_js", "c_js"}
LocksHeldBy(t) ==
  {r \in Registries : t \in mutex_[r].excl \cup mutex_[r].shared}
    \cup (IF t \in g_blockRegistryMutex THEN {"block"} ELSE {})
    \cup {<<"completion", u>> : u \in {v \in Threads : t \in callData[v].completionMutex}}

\* C7: wherever a JS function is being invoked, the invoking thread holds none
\* of the protocol-registry mutex, the subclass-registry mutex, the
\* block-registry mutex or a completion mutex.
C7_NoLockAcrossJs == \A t \in Threads : InJs(t) => LocksHeldBy(t) = {}

\* a queued forwarded call is inside JS on the JS thread, its context having been
\* copied under the registry lock, while a block was created under the block lock
C7_Witness ==
  /\ hpc = "c_js"
  /\ ctx[HItem.thread].impl # 0
  /\ g_blockRegistry # <<>>

\* ---- C8 -----------------------------------------------------------------
\* C8: what a forwarding lookup took out of the registry (the cached pointer to
\* the rooted JS function) is never used after the entry was erased by an
\* Unregister on another thread.
C8_LookupStateNotUsedAfterErase ==
  \A t \in Threads : pc[t] = "f_js" => ctx[t].impl \notin erased

\* ---- C9 -----------------------------------------------------------------
\* C9: the struct-encoding cache is guarded by its own lock: lookups and
\* insertions on the cache map by different threads are mutually exclusive, and
\* an entry once inserted for an encoding is never replaced.
C9_CacheGuardedInsertOnce ==
  /\ Cardinality(InFind \cup InEmplace) <= 1
  /\ \A e \in StructEncodings : cache[e] <= 1

\* ---- C10 ----------------------------------------------------------------
\* C10: CallFunction prepares libffi, marshals arguments and calls the native
\* function only when the number of provided arguments equals the number of
\* declared encodings and the symbol resolved; on an arity mismatch or a missing
\* symbol it ends with an error raised and none of these done.
C10_ChecksPrecedeFfi ==
  LET matches == cfIn.infoLength >= 4 /\ cfIn.infoLength - 4 = cfIn.argCount IN
    /\ cfEffects # {} => matches /\ cfResolved
    /\ (cfPc = "done" /\ ~(matches /\ cfResolved)) => cfError # "none" /\ cfEffects = {}
    /\ (cfPc \in {"prepare", "marshal", "call"}) => matches /\ cfResolved

\* a call with declared encodings and a different number of arguments has ended
C10_Witness ==
  /\ cfPc = "done"
  /\ cfIn.argCount > 0
  /\ cfIn.infoLength > 4
  /\ cfIn.infoLength - 4 # cfIn.argCount
  /\ cfError = "arity_mismatch"

\* ---- C11 ----------------------------------------------------------------
\* C11: for every non-void return encoding, in CallFunction and in callSuper,
\* the return buffer handed to ffi_call is at least sizeof(ffi_arg) and at least
\* the declared return type, also for the 1-, 2- and 4-byte codes.
C11_ReturnBufferLargeEnough ==
  (returnBuffer.path # "none" /\ returnBuffer.code # "v") =>
     /\ returnBuffer.bufferSize >= SizeofFfiArg
     /\ returnBuffer.bufferSize >= returnBuffer.returnSize

(***************************************************************************)
(* Claims about ParseStructEncodingWithNames                               *)
(***************************************************************************)
NamesOf(fields) == [i \in DOMAIN fields |-> fields[i].name]
PositionalNames(n) == [i \in 1..n |-> FieldPrefix \o to_string(i - 1)]
HasTableNames(d) ==
  /\ LookupKnownFieldNames(d.name) # <<>>
  /\ Len(LookupKnownFieldNames(d.name)) = Len(d.fields)

\* quoted names are kept, at the level of d and in every struct below it
RECURSIVE QuotedNamesKept(_, _)
QuotedNamesKept(d, fields) ==
  /\ Len(fields) = Len(d.fields)
  /\ d.names # <<>> => NamesOf(fields) = d.names
  /\ \A i \in DOMAIN d.fields :
       ~IsLeaf(d.fields[i]) => QuotedNamesKept(d.fields[i], fields[i].subfields)

\* C12: the parsed fields keep exactly the quoted names of the encoding
\* whenever it carries any; without quoted names the fields of a struct have
\* the table's names when the struct name is in the table, and the positional
\* names field0, field1, ... when it is not.
C12_FieldNamePrecedence ==
  parsed # NoParsed =>
    /\ parsed.result.valid
    /\ QuotedNamesKept(parsed.desc, parsed.result.fields)
    /\ parsed.desc.names = <<>> =>
         NamesOf(parsed.result.fields) =
           IF HasTableNames(parsed.desc)
             THEN LookupKnownFieldNames(parsed.desc.name)
             ELSE PositionalNames(Len(parsed.desc.fields))

\* a struct of the table without quoted names has the table's names, at the
\* level of d and in every struct below it
RECURSIVE CanonicalNames(_, _)
CanonicalNames(d, fields) ==
  /\ Len(fields) = Len(d.fields)
  /\ (d.names = <<>> /\ HasTableNames(d)) =>
       NamesOf(fields) = LookupKnownFieldNames(d.name)
  /\ \A i \in DOMAIN d.fields :
       ~IsLeaf(d.fields[i]) => CanonicalNames(d.fields[i], fields[i].subfields)

\* C13: a well-known struct without quoted names has its canonical field
\* names at every nesting depth of the parsed struct, two or more levels deep
\* included.
C13_CanonicalNamesAtEveryDepth ==
  parsed # NoParsed => CanonicalNames(parsed.desc, parsed.result.fields)

\* fields in declaration order, each at a multiple of its alignment, none
\* overlapping the next, the last ending within totalSize; the same for the
\* subfields of a nested struct within its size
RECURSIVE LayoutHolds(_, _)
LayoutHolds(fields, totalSize) ==
  \A i \in DOMAIN fields :
    /\ fields[i].alignment > 0
    /\ fields[i].offset % fields[i].alignment = 0
    /\ i < Len(fields) => fields[i].offset + fields[i].size <= fields[i + 1].offset
    /\ i = Len(fields) => fields[i].offset + fields[i].size <= totalSize
    /\ fields[i].isStruct => LayoutHolds(fields[i].subfields, fields[i].size)

\* C14: in every ParsedStructType, and in the subfields of every nested
\* field, each offset is a multiple of the field's alignment, the fields do
\* not overlap in declaration order, and the last field ends within totalSize.
C14_LayoutInvariant ==
  parsed # NoParsed => LayoutHolds(parsed.result.fields, parsed.result.totalSize)

\* padding before the field after fields[i]
PaddedAfter(fields, i) ==
  i < Len(fields) /\ fields[i].offset + fields[i].size < fields[i + 1].offset

\* a parsed struct with padding between its fields and a nested struct that
\* has padding between its own
C14_Witness ==
  /\ parsed # NoParsed
  /\ parsed.result.valid
  /\ \E i \in DOMAIN parsed.result.fields : PaddedAfter(parsed.result.fields, i)
  /\ \E i \in DOMAIN parsed.result.fields :
       /\ parsed.result.fields[i].isStruct
       /\ \E j \in DOMAIN parsed.result.fields[i].subfields :
            PaddedAfter(parsed.result.fields[i].subfields, j)

(***************************************************************************)
(* JS values and the scalar conversions between JS and raw memory          *)
(***************************************************************************)
\* A JS number is h/2, plus 2^plus when plus is 32 or 64: halves stand for the
\* fractions, plus for the magnitudes beyond 32 bits.
Num(h) == [t |-> "number", h |-> h, plus |-> 0]
BigNum(h, plus) == [t |-> "number", h |-> h, plus |-> plus]
Whole(v) == Num(2 * v)
Bool(b) == [t |-> "boolean", b |-> b]
Str(s) == [t |-> "string", s |-> s]
Undefined == [t |-> "undefined"]
JsNull == [t |-> "null"]
\* an object with its own keys in insertion order
Obj(keys, vals) == [t |-> "object", keys |-> keys, vals |-> vals]
Arr(vals) == [t |-> "array", vals |-> vals]
\* an ObjcObject wrapping the pointer id (ObjcObject::NewInstance)
NewInstance(id) == [t |-> "ObjcObject", id |-> id]

nil == 0
\* strings and selectors are named by numbers; sel_registerName gives each
\* string a selector that is not null
EmptyString == 0
sel_registerName(s) == s + 1
NSStringFromSelector(sel) == sel - 1
\* what a failed N-API call leaves: a pending JS exception, thrown as
\* Napi::Error
Throws == [ok |-> FALSE]
Ok(v) == [ok |-> TRUE, v |-> v]

IsObject(js) == js.t \in {"object", "array", "ObjcObject"}
IsArray(js) == js.t = "array"
IsNumber(js) == js.t = "number"
IsBoolean(js) == js.t = "boolean"
IsNullish(js) == js.t \in {"null", "undefined"}

KeysOf(js) ==
  IF js.t = "object" THEN js.keys
  ELSE IF js.t = "array" THEN [i \in DOMAIN js.vals |-> to_string(i - 1)]
  ELSE <<>>
\* Napi::Object::Has and Get; a missing property reads as undefined
Has(js, name) == \E i \in DOMAIN KeysOf(js) : KeysOf(js)[i] = name
Get(js, name) ==
  IF Has(js, name)
    THEN js.vals[CHOOSE i \in DOMAIN KeysOf(js) : KeysOf(js)[i] = name]
    ELSE Undefined

\* the integer part of h/2, toward zero
Trunc(h) == IF h >= 0 THEN h \div 2 ELSE -((-h) \div 2)

\* Napi::Number::DoubleValue, Int64Value, Int32Value, Uint32Value: each fails
\* on a value that is not a number
DoubleValue(js) == IF IsNumber(js) THEN Ok([h |-> js.h, plus |-> js.plus]) ELSE Throws
Int64Value(js) == IF IsNumber(js) THEN Ok([v |-> Trunc(js.h), plus |-> js.plus]) ELSE Throws
\* ToInt32 / ToUint32 take the number modulo 2^32, which drops 2^32
Int32Value(js) == IF IsNumber(js) THEN Ok([v |-> Trunc(js.h), plus |-> 0]) ELSE Throws
Uint32Value(js) == IF IsNumber(js) THEN Ok([v |-> Trunc(js.h), plus |-> 0]) ELSE Throws
ToBoolean(js) ==
  IF IsBoolean(js) THEN js.b
  ELSE IF IsNumber(js) THEN js.h # 0 \/ js.plus # 0
  ELSE IF js.t = "string" THEN js.s # EmptyString
  ELSE ~IsNullish(js)

SignedCodes == {"c", "i", "s", "l", "q"}
UnsignedCodes == {"C", "I", "S", "L", "Q"}
IntegerCodes == SignedCodes \cup UnsignedCodes
FloatCodes == {"f", "d"}

TruncateToChar(n, w) ==
  [kind |-> "int", w |-> w, rep |-> ((n.v + 128) % 256) - 128, plus |-> 0]
\* static_cast to an integer type of w bytes: the bit pattern kept, named by
\* its signed value; 2^32 survives only in 8 bytes.  Values are below 2^31 in
\* magnitude, so 4 and 8 bytes keep v.
Truncate(n, w) ==
  [kind |-> "int", w |-> w,
   rep |-> IF w = 1 THEN ((n.v + 128) % 256) - 128
           ELSE IF w = 2 THEN ((n.v + 32768) % 65536) - 32768
           ELSE n.v,
   plus |-> IF w = 8 THEN n.plus ELSE 0]
FloatCell(n, w) == [kind |-> "float", w |-> w, h |-> n.h, plus |-> n.plus]
BoolCell(b) == [kind |-> "bool", w |-> 1, rep |-> IF b THEN 1 ELSE 0]
PtrCell(p) == [kind |-> "ptr", w |-> 8, p |-> p]
\* memory that was zero-filled and not written since
ZeroCell(code) ==
  IF code \in IntegerCodes
    THEN [kind |-> "int", w |-> GetSizeForTypeEncoding(code), rep |-> 0, plus |-> 0]
  ELSE IF code \in FloatCodes
    THEN [kind |-> "float", w |-> GetSizeForTypeEncoding(code), h |-> 0, plus |-> 0]
  ELSE IF code = "B" THEN BoolCell(FALSE)
  ELSE PtrCell(nil)

\* ObjCToJS (type-conversion.h:63-154) on the cell at valuePtr
ObjCToJS(cell, typeCode) ==
  IF typeCode \in SignedCodes THEN BigNum(2 * cell.rep, cell.plus)
  ELSE IF typeCode \in UnsignedCodes THEN
    IF cell.rep >= 0 THEN BigNum(2 * cell.rep, cell.plus)
    ELSE IF cell.w = 1 THEN Whole(cell.rep + 256)
    ELSE IF cell.w = 2 THEN Whole(cell.rep + 65536)
    ELSE BigNum(2 * cell.rep, 8 * cell.w)
  ELSE IF typeCode \in FloatCodes THEN BigNum(cell.h, cell.plus)
  ELSE IF typeCode = "B" THEN Bool(cell.rep # 0)
  ELSE IF typeCode = "*" THEN (IF cell.p = nil THEN JsNull ELSE Str(cell.p))
  ELSE IF typeCode \in {"@", "#"}
    THEN (IF cell.p = nil THEN JsNull ELSE NewInstance(cell.p))
  ELSE IF typeCode = ":"
    THEN (IF cell.p = nil THEN JsNull ELSE Str(NSStringFromSelector(cell.p)))
  ELSE Undefined

\* WriteLeafToBufferVisitor (struct-utils.h:301-375): the cell written at
\* dest, <<>> when nothing is written
WriteLeafToBufferVisitor(typeCode, jsValue) ==
  IF typeCode \in IntegerCodes THEN
    IF Int64Value(jsValue).ok
      THEN Ok(Truncate(Int64Value(jsValue).v, GetSizeForTypeEncoding(typeCode)))
      ELSE Throws
  ELSE IF typeCode \in FloatCodes THEN
    IF DoubleValue(jsValue).ok
      THEN Ok(FloatCell(DoubleValue(jsValue).v, GetSizeForTypeEncoding(typeCode)))
      ELSE Throws
  ELSE IF typeCode = "B" THEN Ok(BoolCell(ToBoolean(jsValue)))
  ELSE IF typeCode = "@" THEN
    IF ~IsNullish(jsValue) /\ IsObject(jsValue)
      THEN (IF jsValue.t = "ObjcObject" THEN Ok(PtrCell(jsValue.id)) ELSE Throws)
      ELSE Ok(PtrCell(nil))
  ELSE IF typeCode = "#" THEN Ok(PtrCell(nil))
  ELSE IF typeCode = ":"
    THEN Ok(PtrCell(IF jsValue.t = "string" THEN sel_registerName(jsValue.s) ELSE nil))
  ELSE IF typeCode \in {"*", "^"} THEN Ok(PtrCell(nil))
  ELSE Ok(<<>>)

(***************************************************************************)
(* Packing a JS value into a struct buffer and unpacking it again          *)
(***************************************************************************)
\* a buffer is its size and the cells written into it, by offset; every other
\* byte is zero
Buffer(size, cells) == [size |-> size, cells |-> cells]
NoCells == [o \in {} |-> <<>>]
CellAt(buffer, offset, typeCode) ==
  IF offset \in DOMAIN buffer.cells THEN buffer.cells[offset] ELSE ZeroCell(typeCode)

\* WriteLeafValueToBuffer (struct-utils.h:381-387): the cells after the write
WriteLeafValueToBuffer(jsValue, typeEncoding, offset) ==
  LET code == CharAt(typeEncoding, SimplifyTypeEncoding(typeEncoding, 1))
      written == WriteLeafToBufferVisitor(code, jsValue)
  IN IF ~written.ok THEN Throws
     ELSE IF written.v = <<>> THEN Ok(NoCells)
     ELSE Ok(offset :> written.v)

\* PackJSValueToStructBuffer (struct-utils.h:396-464): the cells written for
\* fields[i..], or the throw
RECURSIVE PackJSValueToStructBuffer(_, _, _)
RECURSIVE PackFieldsFrom(_, _, _, _)
PackFieldsFrom(jsValue, fields, i, baseOffset) ==
  IF i > Len(fields) THEN Ok(NoCells)
  ELSE
    LET field == fields[i]
        namesMatch == ~IsArray(jsValue) /\ Has(jsValue, fields[1].name)
        fieldValue ==
          IF IsArray(jsValue)
            THEN (IF i <= Len(jsValue.vals) THEN Ok(jsValue.vals[i]) ELSE Throws)
          ELSE IF namesMatch THEN Ok(Get(jsValue, field.name))
          ELSE Ok(Get(jsValue, KeysOf(jsValue)[i]))
        here ==
          IF ~fieldValue.ok THEN Throws
          ELSE IF field.isStruct /\ field.subfields # <<>>
            THEN PackJSValueToStructBuffer(fieldValue.v, field.subfields,
                                           baseOffset + field.offset)
            ELSE WriteLeafValueToBuffer(fieldValue.v, field.typeEncoding,
                                        baseOffset + field.offset)
        rest == PackFieldsFrom(jsValue, fields, i + 1, baseOffset)
    IN IF ~here.ok \/ ~rest.ok THEN Throws ELSE Ok(here.v @@ rest.v)
PackJSValueToStructBuffer(jsValue, fields, baseOffset) ==
  LET isArray == IsArray(jsValue)
      isObject == IsObject(jsValue) /\ ~isArray
      namesMatch == isObject /\ fields # <<>> /\ Has(jsValue, fields[1].name)
  IN IF ~isArray /\ ~isObject THEN Throws
     ELSE IF isObject /\ ~namesMatch /\ Len(KeysOf(jsValue)) < Len(fields) THEN Throws
     ELSE PackFieldsFrom(jsValue, fields, 1, baseOffset)

\* ReadLeafValueFromBuffer (struct-utils.h:472-478)
ReadLeafValueFromBuffer(buffer, typeEncoding, offset) ==
  LET code == CharAt(typeEncoding, SimplifyTypeEncoding(typeEncoding, 1))
  IN ObjCToJS(CellAt(buffer, offset, code), code)

\* UnpackStructBufferToJSObject (struct-utils.h:483-506)
RECURSIVE UnpackStructBufferToJSObject(_, _, _)
UnpackStructBufferToJSObject(fields, buffer, baseOffset) ==
  Obj(NamesOf(fields),
      [i \in DOMAIN fields |->
         IF fields[i].isStruct /\ fields[i].subfields # <<>>
           THEN UnpackStructBufferToJSObject(fields[i].subfields, buffer,
                                             baseOffset + fields[i].offset)
           ELSE ReadLeafValueFromBuffer(buffer, fields[i].typeEncoding,
                                        baseOffset + fields[i].offset)])

\* ExtractStructName (struct-utils.h:527-533)
ExtractStructName(encoding) ==
  IF CharAt(encoding, 1) # "{" THEN <<>>
  ELSE Slice(encoding, 2, Min(Min(FindChar(encoding, 2, "="),
                                  FindChar(encoding, 2, "}")), Len(encoding) + 1))

XName == <<"x">>
YName == <<"y">>
WidthName == <<"w", "i", "d", "t", "h">>
HeightName == <<"h", "e", "i", "g", "h", "t">>
OriginName == <<"o", "r", "i", "g", "i", "n">>
SizeName == <<"s", "i", "z", "e">>
LocationName == <<"l", "o", "c", "a", "t", "i", "o", "n">>
LengthName == <<"l", "e", "n", "g", "t", "h">>
NSPointName == <<"N", "S", "P", "o", "i", "n", "t">>
NSSizeName == <<"N", "S", "S", "i", "z", "e">>
NSRectName == <<"N", "S", "R", "e", "c", "t">>
NSRangeAlias == <<"N", "S", "R", "a", "n", "g", "e">>

\* obj.Get(key) on what As<Napi::Object>() was applied to: a value that is
\* not an object has no properties to get
GetOf(js, name) == IF IsObject(js) THEN Ok(Get(js, name)) ELSE Throws
\* obj.Get(key).As<Napi::Number>().DoubleValue()
DoubleOf(js, name) ==
  IF GetOf(js, name).ok THEN DoubleValue(GetOf(js, name).v) ELSE Throws
Int64Of(js, name) ==
  IF GetOf(js, name).ok THEN Int64Value(GetOf(js, name).v) ELSE Throws

Handled(cells) == [handled |-> TRUE, ok |-> TRUE, v |-> cells]
NotHandled == [handled |-> FALSE, ok |-> TRUE]
FastThrows == [handled |-> TRUE, ok |-> FALSE]

\* TryPackCGPoint and TryPackCGSize (struct-utils.h:540-549, 567-576), which
\* differ in the two keys
TryPackTwoDoubles(jsValue, first, second) ==
  IF ~IsObject(jsValue) \/ IsArray(jsValue) THEN NotHandled
  ELSE IF ~DoubleOf(jsValue, first).ok \/ ~DoubleOf(jsValue, second).ok THEN FastThrows
  ELSE Handled((0 :> FloatCell(DoubleOf(jsValue, first).v, 8))
               @@ (8 :> FloatCell(DoubleOf(jsValue, second).v, 8)))
TryPackCGPoint(jsValue) == TryPackTwoDoubles(jsValue, XName, YName)
TryPackCGSize(jsValue) == TryPackTwoDoubles(jsValue, WidthName, HeightName)
\* TryPackCGRect (struct-utils.h:595-608)
TryPackCGRect(jsValue) ==
  IF ~IsObject(jsValue) \/ IsArray(jsValue) THEN NotHandled
  ELSE LET origin == Get(jsValue, OriginName)
           size == Get(jsValue, SizeName)
           vals == <<DoubleOf(origin, XName), DoubleOf(origin, YName),
                     DoubleOf(size, WidthName), DoubleOf(size, HeightName)>>
       IN IF \E i \in 1..4 : ~vals[i].ok THEN FastThrows
          ELSE Handled([o \in {0, 8, 16, 24} |-> FloatCell(vals[(o \div 8) + 1].v, 8)])
\* TryPackNSRange (struct-utils.h:635-646)
TryPackNSRange(jsValue) ==
  IF ~IsObject(jsValue) \/ IsArray(jsValue) THEN NotHandled
  ELSE IF ~Int64Of(jsValue, LocationName).ok \/ ~Int64Of(jsValue, LengthName).ok
    THEN FastThrows
  ELSE Handled((0 :> Truncate(Int64Of(jsValue, LocationName).v, 8))
               @@ (8 :> Truncate(Int64Of(jsValue, LengthName).v, 8)))

\* TryUnpackCGPoint, TryUnpackCGSize, TryUnpackCGRect, TryUnpackNSRange
\* (struct-utils.h:554-562, 581-589, 613-629, 651-659)
TryUnpackTwoDoubles(buffer, base, first, second) ==
  Obj(<<first, second>>, <<ObjCToJS(CellAt(buffer, base, "d"), "d"),
                           ObjCToJS(CellAt(buffer, base + 8, "d"), "d")>>)
TryUnpackCGPoint(buffer) == TryUnpackTwoDoubles(buffer, 0, XName, YName)
TryUnpackCGSize(buffer) == TryUnpackTwoDoubles(buffer, 0, WidthName, HeightName)
TryUnpackCGRect(buffer) ==
  Obj(<<OriginName, SizeName>>,
      <<TryUnpackTwoDoubles(buffer, 0, XName, YName),
        TryUnpackTwoDoubles(buffer, 16, WidthName, HeightName)>>)
TryUnpackNSRange(buffer) ==
  Obj(<<LocationName, LengthName>>,
      <<ObjCToJS(CellAt(buffer, 0, "Q"), "Q"), ObjCToJS(CellAt(buffer, 8, "Q"), "Q")>>)

\* v bound to a local variable of the body F, computed once
Local(v, F(_)) == CHOOSE r \in {F(x) : x \in {v}} : TRUE

\* the generic path of PackJSValueAsStruct (struct-utils.h:690-700)
GenericPack(jsValue, typeEncoding) ==
  Local(ParseStructEncodingWithNames(typeEncoding),
        LAMBDA p :
          IF p.fields = <<>> THEN Throws
          ELSE Local(PackJSValueToStructBuffer(jsValue, p.fields, 0),
                     LAMBDA cells :
                       IF ~cells.ok THEN Throws ELSE Ok(Buffer(p.totalSize, cells.v))))
\* the generic path of UnpackStructToJSValue (struct-utils.h:726-735)
GenericUnpack(buffer, typeEncoding) ==
  Local(ParseStructEncodingWithNames(typeEncoding),
        LAMBDA p :
          IF p.fields = <<>> THEN Undefined
          ELSE UnpackStructBufferToJSObject(p.fields, buffer, 0))

\* PackJSValueAsStruct (struct-utils.h:669-701)
PackJSValueAsStruct(jsValue, typeEncoding) ==
  LET name == ExtractStructName(typeEncoding)
      fast == IF name \in {CGRectName, NSRectName} THEN TryPackCGRect(jsValue)
              ELSE IF name \in {CGPointName, NSPointName} THEN TryPackCGPoint(jsValue)
              ELSE IF name \in {CGSizeName, NSSizeName} THEN TryPackCGSize(jsValue)
              ELSE IF name \in {NSRangeName, NSRangeAlias} THEN TryPackNSRange(jsValue)
              ELSE NotHandled
  IN IF ~fast.handled THEN GenericPack(jsValue, typeEncoding)
     ELSE IF ~fast.ok THEN Throws
     ELSE Ok(Buffer(IF name \in {CGRectName, NSRectName} THEN 32 ELSE 16, fast.v))

\* UnpackStructToJSValue (struct-utils.h:709-736)
UnpackStructToJSValue(buffer, typeEncoding) ==
  LET name == ExtractStructName(typeEncoding)
  IN IF name \in {CGRectName, NSRectName} THEN TryUnpackCGRect(buffer)
     ELSE IF name \in {CGPointName, NSPointName} THEN TryUnpackCGPoint(buffer)
     ELSE IF name \in {CGSizeName, NSSizeName} THEN TryUnpackCGSize(buffer)
     ELSE IF name \in {NSRangeName, NSRangeAlias} THEN TryUnpackNSRange(buffer)
     ELSE GenericUnpack(buffer, typeEncoding)

(***************************************************************************)
(* The structs and JS values that are packed                               *)
(***************************************************************************)
Struct(name, fields) == [name |-> name, names |-> <<>>, fields |-> fields]
\* the well-known structs that have a fast path, under both of their names
KnownStructs ==
  {Struct(n, Leaves(<<"d", "d">>)) : n \in {CGPointName, NSPointName, CGSizeName, NSSizeName}}
    \cup {Struct(n, Leaves(<<"Q", "Q">>)) : n \in {NSRangeName, NSRangeAlias}}
    \cup {Struct(CGRectName, <<Struct(CGPointName, Leaves(<<"d", "d">>)),
                               Struct(CGSizeName, Leaves(<<"d", "d">>))>>),
          Struct(NSRectName, <<Struct(NSPointName, Leaves(<<"d", "d">>)),
                               Struct(NSSizeName, Leaves(<<"d", "d">>))>>)}
\* synthetic structs with numeric fields of every width, nested and flat
SyntheticStructs ==
  {Struct(OuterName, <<Struct(PairName, Leaves(<<"c", "q">>)), [leaf |-> "s"]>>),
   Struct(OuterName, <<[leaf |-> "C"], Struct(PairName, Leaves(<<"S", "f">>)),
                       Struct(PairName, Leaves(<<"i", "Q">>))>>),
   [name |-> OuterName, names |-> SubSeq(OwnNames, 1, 2),
    fields |-> <<Struct(CGPointName, Leaves(<<"d", "d">>)), [leaf |-> "I"]>>],
   Struct(PairName, Leaves(<<"l", "L", "d">>))}
PackedStructs == KnownStructs \cup SyntheticStructs

Streams == 1..4
\* the number given to the leaf at offset off: fractions and a magnitude beyond
\* 32 bits for a floating-point field; integers of either sign, some wider than
\* the field, for an integer field
LeafInput(stream, off, code) ==
  IF code \in FloatCodes THEN
    IF stream = 1 THEN Num(2 * off + 3)
    ELSE IF stream = 2 THEN Num(-(2 * off + 1))
    ELSE IF stream = 3 THEN Whole(off)
    ELSE BigNum(2 * off + 1, 32)
  ELSE
    IF stream = 1 THEN Whole(off + 1)
    ELSE IF stream = 2 THEN Whole(-(off + 1))
    ELSE IF stream = 3 THEN Whole(200 + off)
    ELSE Whole(70000 + off)

Reverse(s) == [i \in DOMAIN s |-> s[Len(s) + 1 - i]]
OtherKeys(n) == [i \in 1..n |-> <<"k">> \o to_string(i - 1)]
\* the forms the generic walker reads: an object keyed by the field names, in
\* declaration order or not, an object with other keys in declaration order,
\* an array, and an object keyed by name whose nested structs are arrays
Shapes == {"named", "reversed", "other", "array", "namedOverArrays"}
RECURSIVE MakeJs(_, _, _, _)
MakeJs(fields, shape, stream, base) ==
  LET vals == [i \in DOMAIN fields |->
                 IF fields[i].isStruct /\ fields[i].subfields # <<>>
                   THEN MakeJs(fields[i].subfields,
                               IF shape = "namedOverArrays" THEN "array" ELSE shape,
                               stream, base + fields[i].offset)
                   ELSE LeafInput(stream, base + fields[i].offset,
                                  fields[i].typeEncoding[1])]
  IN IF shape = "array" THEN Arr(vals)
     ELSE IF shape = "other" THEN Obj(OtherKeys(Len(fields)), vals)
     ELSE IF shape = "reversed" THEN Obj(Reverse(NamesOf(fields)), Reverse(vals))
     ELSE Obj(NamesOf(fields), vals)
\* values that are no struct at all, or too short
BrokenInputs ==
  {[shape |-> "broken", js |-> v] :
     v \in {Whole(1), Arr(<<Whole(1)>>), Obj(<<<<"k", "0">>>>, <<Whole(1)>>),
            Obj(<<XName, YName>>, <<Str(1), Whole(2)>>)}}
InputsFor(d) ==
  {[shape |-> shape, js |-> MakeJs(p.fields, shape, stream, 0)] :
     p \in {ParseStructEncodingWithNames(EncodeStruct(d))},
     shape \in Shapes, stream \in Streams} \cup BrokenInputs

outsideStructIo == <<outsideConv, returnBuffer, parsed, retInstall, toJs, blockSig>>

\* a call of PackJSValueAsStruct on a struct argument
PackStruct(d, in) ==
  /\ structIo = NoStructIo
  /\ structIo' = [stage |-> "packed", encoding |-> EncodeStruct(d), shape |-> in.shape,
                  js |-> in.js, packed |-> PackJSValueAsStruct(in.js, EncodeStruct(d)),
                  unpacked |-> Undefined]
  /\ UNCHANGED outsideStructIo

\* a call of UnpackStructToJSValue on the buffer that was packed
UnpackStruct ==
  /\ structIo.stage = "packed"
  /\ structIo.packed.ok
  /\ structIo' = [structIo EXCEPT
                    !.stage = "unpacked",
                    !.unpacked = UnpackStructToJSValue(structIo.packed.v, structIo.encoding)]
  /\ UNCHANGED outsideStructIo

NextStructIo ==
  \/ \E d \in PackedStructs : \E in \in InputsFor(d) : PackStruct(d, in)
  \/ UnpackStruct
SpecStructIo == Init /\ [][NextStructIo]_vars

(***************************************************************************)
(* Claims about packing and unpacking                                      *)
(***************************************************************************)
\* b is what a field of the given code can hold and equals a modulo the
\* field's width
SameModWidth(code, a, b) ==
  /\ IsNumber(a) /\ IsNumber(b)
  /\ IF code \in FloatCodes THEN a = b
     ELSE LET w == GetSizeForTypeEncoding(code)
              lo == IF code \in UnsignedCodes THEN 0 ELSE IF w = 1 THEN -128 ELSE -32768
              hi == IF code \in UnsignedCodes THEN (IF w = 1 THEN 255 ELSE 65535)
                    ELSE IF w = 1 THEN 127 ELSE 32767
          IN /\ b.h % 2 = 0
             /\ IF w <= 2
                  THEN /\ b.plus = 0
                       /\ Trunc(b.h) >= lo /\ Trunc(b.h) <= hi
                       /\ (Trunc(a.h) - Trunc(b.h)) % (IF w = 1 THEN 256 ELSE 65536) = 0
                  ELSE /\ Trunc(a.h) = Trunc(b.h)
                       /\ b.plus \in {a.plus, 8 * w}
                       /\ b.plus # a.plus => (code \in UnsignedCodes /\ a.h < 0)

\* out has the keys of in, and under each key the value of in modulo the width
\* of the field
RECURSIVE RoundTrips(_, _, _)
RoundTrips(fields, in, out) ==
  /\ in.t = "object" /\ out.t = "object"
  /\ Len(out.keys) = Len(in.keys)
  /\ {in.keys[i] : i \in DOMAIN in.keys} = {out.keys[i] : i \in DOMAIN out.keys}
  /\ \A i \in DOMAIN fields :
       /\ Has(in, fields[i].name) /\ Has(out, fields[i].name)
       /\ IF fields[i].isStruct /\ fields[i].subfields # <<>>
            THEN RoundTrips(fields[i].subfields, Get(in, fields[i].name),
                            Get(out, fields[i].name))
            ELSE SameModWidth(fields[i].typeEncoding[1], Get(in, fields[i].name),
                              Get(out, fields[i].name))

StructIoFields == ParseStructEncodingWithNames(structIo.encoding).fields

HasFastPath(encoding) ==
  ExtractStructName(encoding) \in
    {CGRectName, NSRectName, CGPointName, NSPointName, CGSizeName, NSSizeName,
     NSRangeName, NSRangeAlias}

\* C16: for an encoding named CGRect/NSRect, CGPoint/NSPoint, CGSize/NSSize or
\* NSRange/_NSRange and a JS input the generic walker accepts, the buffer
\* PackJSValueAsStruct returns has the bytes and the size that
\* PackJSValueToStructBuffer gives on the parsed encoding, and
\* UnpackStructToJSValue returns the object the generic walker unpacks.
C16_FastPathIsGenericWalker ==
  (/\ structIo # NoStructIo
   /\ HasFastPath(structIo.encoding)
   /\ GenericPack(structIo.js, structIo.encoding).ok) =>
     /\ structIo.packed = GenericPack(structIo.js, structIo.encoding)
     /\ structIo.stage = "unpacked" =>
          structIo.unpacked = GenericUnpack(structIo.packed.v, structIo.encoding)

(***************************************************************************)
(* Installing a JS value as a raw return value or struct leaf              *)
(***************************************************************************)
\* nothing was stored: the return slot keeps what it held
NotStored == <<>>
Stored(cell) == [threw |-> FALSE, stored |-> cell]
InstallThrows == [threw |-> TRUE, stored |-> NotStored]

\* asSigned64 / asUnsigned64 (type-conversion.h:291-313): a boolean is 0 or 1,
\* a number goes through Int64Value, anything else is refused
asSigned64(result) ==
  IF IsBoolean(result) THEN Ok([v |-> IF result.b THEN 1 ELSE 0, plus |-> 0])
  ELSE IF IsNumber(result) THEN Int64Value(result)
  ELSE Throws
\* asDouble (type-conversion.h:315-325)
asDouble(result) ==
  IF IsBoolean(result) THEN Ok([h |-> IF result.b THEN 2 ELSE 0, plus |-> 0])
  ELSE IF IsNumber(result) THEN DoubleValue(result)
  ELSE Throws

\* SetInvocationReturnFromJS (type-conversion.h:279-498)
SetInvocationReturnFromJS(result, typeCode) ==
  IF IsNullish(result)
    THEN Stored(IF typeCode = "@" THEN PtrCell(nil) ELSE NotStored)
  ELSE IF typeCode \in IntegerCodes THEN
    Stored(IF asSigned64(result).ok
             THEN Truncate(asSigned64(result).v, GetSizeForTypeEncoding(typeCode))
             ELSE NotStored)
  ELSE IF typeCode \in FloatCodes THEN
    Stored(IF asDouble(result).ok
             THEN FloatCell(asDouble(result).v, GetSizeForTypeEncoding(typeCode))
             ELSE NotStored)
  ELSE IF typeCode = "B" THEN
    Stored(IF IsBoolean(result) THEN BoolCell(result.b)
           ELSE IF IsNumber(result) THEN BoolCell(Int32Value(result).v.v # 0)
           ELSE NotStored)
  ELSE IF typeCode = "@" THEN
    Stored(IF result.t = "ObjcObject" THEN PtrCell(result.id) ELSE NotStored)
  ELSE Stored(NotStored)

\* the integer cases of SetBlockReturnFromJS (nobjc_block.h:454-463)
BlockInteger(result, typeCode) ==
  LET n == IF typeCode \in {"c", "i", "s"} THEN Int32Value(result)
           ELSE IF typeCode \in {"C", "I", "S"} THEN Uint32Value(result)
           ELSE Int64Value(result)
  IN IF n.ok THEN Stored(Truncate(n.v, GetSizeForTypeEncoding(typeCode)))
     ELSE InstallThrows

\* SetBlockReturnFromJS (nobjc_block.h:436-489)
SetBlockReturnFromJS(result, code) ==
  IF code = "v" THEN Stored(NotStored)
  ELSE IF IsNullish(result)
    THEN Stored(IF code \in {"@", "#"} THEN PtrCell(nil) ELSE NotStored)
  ELSE IF code \in IntegerCodes THEN BlockInteger(result, code)
  ELSE IF code \in FloatCodes THEN
    IF DoubleValue(result).ok
      THEN Stored(FloatCell(DoubleValue(result).v, GetSizeForTypeEncoding(code)))
      ELSE InstallThrows
  ELSE IF code = "B" THEN
    Stored(BoolCell(IF IsBoolean(result) THEN result.b
                    ELSE IF IsNumber(result) THEN Int32Value(result).v.v # 0
                    ELSE FALSE))
  ELSE IF code \in {"@", "#"} THEN
    Stored(PtrCell(IF result.t = "ObjcObject" THEN result.id ELSE nil))
  ELSE Stored(NotStored)

\* the leaf write of the struct packer, as an installation
WriteStructLeaf(result, code) ==
  LET written == WriteLeafToBufferVisitor(code, result)
  IN IF written.ok THEN Stored(written.v) ELSE InstallThrows

ReturnCodes == IntegerCodes \cup FloatCodes \cup {"B", "@", "#", "v", "*", ":"}
\* JS results: numbers in and out of every width, a fraction, one beyond 32
\* bits, booleans, null, undefined, a string, a handle and a plain object
InstalledResults ==
  {Whole(5), Whole(-1), Whole(200), Whole(70000), Num(3), BigNum(10, 32),
   Bool(TRUE), Bool(FALSE), JsNull, Undefined, Str(1), NewInstance(7),
   Obj(<<XName>>, <<Whole(1)>>)}

outsideRetInstall == <<outsideConv, returnBuffer, parsed, structIo, toJs, blockSig>>

\* the JS implementation of a forwarded method returned result
InstallInvocationReturn(result, typeCode) ==
  /\ retInstall' = [path |-> "invocation", code |-> typeCode, result |-> result,
                    outcome |-> SetInvocationReturnFromJS(result, typeCode)]
  /\ UNCHANGED outsideRetInstall

\* the JS function behind a block returned result
InstallBlockReturn(result, typeCode) ==
  /\ retInstall' = [path |-> "block", code |-> typeCode, result |-> result,
                    outcome |-> SetBlockReturnFromJS(result, typeCode)]
  /\ UNCHANGED outsideRetInstall

\* the struct packer wrote result into a leaf field
InstallStructLeaf(result, typeCode) ==
  /\ retInstall' = [path |-> "structLeaf", code |-> typeCode, result |-> result,
                    outcome |-> WriteStructLeaf(result, typeCode)]
  /\ UNCHANGED outsideRetInstall

NextJsToRaw ==
  \E result \in InstalledResults, typeCode \in ReturnCodes :
    \/ InstallInvocationReturn(result, typeCode)
    \/ InstallBlockReturn(result, typeCode)
    \/ InstallStructLeaf(result, typeCode)
SpecJsToRaw == Init /\ [][NextJsToRaw]_vars

\* C17: for the integer codes, on the invocation return path and on the block
\* return path alike, a JS number is read through the 64-bit integer accessor
\* and truncated to the width of the code, and a JS boolean counts as 0 or 1,
\* so both paths store the same value for the same result and code.
C17_IntegerReturnInstalledAlike ==
  (/\ retInstall # NoRetInstall
   /\ retInstall.path \in {"invocation", "block"}
   /\ retInstall.code \in IntegerCodes
   /\ IsNumber(retInstall.result) \/ IsBoolean(retInstall.result)) =>
     retInstall.outcome =
       Stored(Truncate(asSigned64(retInstall.result).v,
                       GetSizeForTypeEncoding(retInstall.code)))

\* C18: code # is installed as code @ is: into an invocation's return value
\* and into a struct leaf, a handle stores the pointer it wraps and null or
\* undefined stores nil.
C18_ClassCodeInstalledAsId ==
  (/\ retInstall # NoRetInstall
   /\ retInstall.path \in {"invocation", "structLeaf"}
   /\ retInstall.code \in {"@", "#"}) =>
     /\ retInstall.result.t = "ObjcObject" =>
          retInstall.outcome = Stored(PtrCell(retInstall.result.id))
     /\ IsNullish(retInstall.result) => retInstall.outcome = Stored(PtrCell(nil))

(***************************************************************************)
(* Raw values surfaced to JS                                               *)
(***************************************************************************)
\* pointer-sized raw values: nil, a small integer, an ObjC object on the heap,
\* a heap address that is no object, and a tagged pointer
SmallInteger == 7
HeapObject == 5000
OtherAddress == 6000
TaggedPointer == 9000
RawValues == {nil, SmallInteger, HeapObject, OtherAddress, TaggedPointer}

\* LooksLikeObjCObject (nobjc_block.h:348-368)
LooksLikeObjCObject(val) ==
  IF val = 0 THEN FALSE
  ELSE IF val = TaggedPointer THEN TRUE
  ELSE IF val < 4096 THEN FALSE
  ELSE val = HeapObject

\* the cell a raw value is when read as typeCode
RawCell(typeCode, val) ==
  IF typeCode \in IntegerCodes
    THEN Truncate([v |-> val, plus |-> 0], GetSizeForTypeEncoding(typeCode))
  ELSE IF typeCode \in FloatCodes
    THEN FloatCell([h |-> 2 * val, plus |-> 0], GetSizeForTypeEncoding(typeCode))
  ELSE IF typeCode = "B" THEN BoolCell(val # 0)
  ELSE PtrCell(val)

\* ExtractInvocationArgumentToJS (type-conversion.h:157-274)
ExtractInvocationArgumentToJS(val, typeCode) ==
  IF typeCode = "^" THEN (IF val = nil THEN JsNull ELSE Undefined)
  ELSE ObjCToJS(RawCell(typeCode, val), typeCode)

\* GetInvocationReturnAsJS (type-conversion.h:503-610); an unsupported code
\* leaves a TypeError pending and returns null
GetInvocationReturnAsJS(val, returnType) ==
  LET code == CharAt(returnType, SimplifyTypeEncoding(returnType, 1))
  IN IF code \in IntegerCodes \cup FloatCodes \cup {"B", "v", "*", "@", "#", ":"}
       THEN ObjCToJS(RawCell(code, val), code)
       ELSE JsNull

\* ConvertBlockArgHeuristic (nobjc_block.h:381-397)
ConvertBlockArgHeuristic(val) ==
  IF val = 0 THEN Whole(0)
  ELSE IF LooksLikeObjCObject(val) THEN NewInstance(val)
  ELSE Whole(val)

\* ConvertBlockArgToJS (nobjc_block.h:403-428); a struct argument is read from
\* a zero-filled buffer
ConvertBlockArgToJS(val, typeEncoding) ==
  LET at == SimplifyTypeEncoding(typeEncoding, 1)
      code == CharAt(typeEncoding, at)
  IN IF code = "?" THEN ConvertBlockArgHeuristic(val)
     ELSE IF code = "@" /\ CharAt(typeEncoding, at + 1) = "?"
       THEN (IF val = nil THEN JsNull ELSE NewInstance(val))
     ELSE IF code = "{"
       THEN UnpackStructToJSValue(Buffer(0, NoCells),
                                  Slice(typeEncoding, at, Len(typeEncoding) + 1))
     ELSE ObjCToJS(RawCell(code, val), code)

\* encodings of the values converted: ids, classes, blocks, the unknown type
\* of an inferred block parameter, with and without qualifiers, and the
\* codes that are no objects
ToJsEncodings ==
  {<<"@">>, <<"#">>, <<"@", "?">>, <<"?">>, <<"r", "@">>, <<"n", "#">>, <<":">>,
   <<"*">>, <<"^">>, <<"q">>, <<"Q">>, <<"C">>, <<"d">>, <<"B">>, <<"v">>,
   EncodeStruct(Struct(CGPointName, Leaves(<<"d", "d">>)))}
\* the encodings of an object-typed value
ObjectEncodings == {<<"@">>, <<"#">>, <<"@", "?">>, <<"r", "@">>, <<"n", "#">>}

NewInstanceArguments(js) == IF js.t = "ObjcObject" THEN {js.id} ELSE {}
outsideToJs == <<outsideConv, returnBuffer, parsed, structIo, retInstall, blockSig>>
Surfaced(path, encoding, val, js) ==
  /\ toJs' = [path |-> path, encoding |-> encoding, raw |-> val, js |-> js,
              newInstanceOf |-> NewInstanceArguments(js)]
  /\ UNCHANGED outsideToJs

\* ObjCToJS on a value in memory, by its type code
ConvertObjCToJS(val, encoding) ==
  /\ Len(encoding) = 1
  /\ Surfaced("ObjCToJS", encoding, val, ObjCToJS(RawCell(encoding[1], val), encoding[1]))
\* an argument of a forwarded invocation, by its type code
ConvertInvocationArgument(val, encoding) ==
  /\ Len(encoding) = 1
  /\ Surfaced("ExtractInvocationArgumentToJS", encoding, val,
              ExtractInvocationArgumentToJS(val, encoding[1]))
\* the return value of an invocation, by the method's return type
ConvertInvocationReturn(val, encoding) ==
  Surfaced("GetInvocationReturnAsJS", encoding, val, GetInvocationReturnAsJS(val, encoding))
\* an argument of a block, by the parameter type of the block's signature
ConvertBlockArg(val, encoding) ==
  Surfaced("ConvertBlockArgToJS", encoding, val, ConvertBlockArgToJS(val, encoding))

NextToJs ==
  \E val \in RawValues, encoding \in ToJsEncodings :
    \/ ConvertObjCToJS(val, encoding)
    \/ ConvertInvocationArgument(val, encoding)
    \/ ConvertInvocationReturn(val, encoding)
    \/ ConvertBlockArg(val, encoding)
SpecToJs == Init /\ [][NextToJs]_vars

\* C19: in every raw-to-JS conversion of an object-typed value, the block
\* argument of unknown type included, nil is surfaced as null, and
\* ObjcObject::NewInstance is never called with nil.
C19_NilNeverBecomesHandle ==
  toJs # NoToJs =>
    /\ nil \notin toJs.newInstanceOf
    /\ (/\ toJs.raw = nil
        /\ \/ toJs.encoding \in ObjectEncodings
           \/ toJs.path = "ConvertBlockArgToJS" /\ toJs.encoding = <<"?">>) =>
         toJs.js = JsNull

(***************************************************************************)
(* ParseBlockSignature                                                     *)
(***************************************************************************)
\* the loop of nobjc_block.h:132-138: where end stops, and the depth it
\* stops with, from position end at the given depth
\* the depth once the loop has consumed s[end .. e-1] is the starting depth
\* plus the '<' and minus the '>' among them; the loop stops at the first e
\* that is past the string or where that depth is no longer positive
DepthAfter(s, end, depth, e) ==
  depth + Cardinality({k \in end..(e - 1) : s[k] = "<"})
        - Cardinality({k \in end..(e - 1) : s[k] = ">"})
FindBlockEnd(s, end, depth) ==
  IF end > Len(s) THEN [end |-> end, depth |-> depth]
  ELSE Local({e \in end..(Len(s) + 1) : e > Len(s) \/ DepthAfter(s, end, depth, e) <= 0},
             LAMBDA stops :
         Local(CHOOSE e \in stops : \A f \in stops : e <= f, LAMBDA e :
           [end |-> e, depth |-> DepthAfter(s, end, depth, e)]))

\* the loop of nobjc_block.h:156-161: the tokens of inner from position i
RECURSIVE ParamTypesFrom(_, _)
ParamTypesFrom(inner, i) ==
  IF i > Len(inner) THEN <<>>
  ELSE LET paramType == Slice(inner, i, SkipOneEnd(inner, i))
       IN (IF paramType # <<>> THEN <<paramType>> ELSE <<>>)
          \o ParamTypesFrom(inner, SkipOneEnd(inner, i))

InvalidSignature ==
  [outcome |-> "returned", valid |-> FALSE, returnType |-> <<>>, paramTypes |-> <<>>]
\* std::string(ptr, n) with n = (size_t)-1
LengthError ==
  [outcome |-> "length_error", valid |-> FALSE, returnType |-> <<>>, paramTypes |-> <<>>]

\* ParseBlockSignature (nobjc_block.h:110-168)
ParseBlockSignature(encoding) ==
  LET at == SimplifyTypeEncoding(encoding, 1)
      ptr == at + 3
      end == FindBlockEnd(encoding, ptr, 1).end
      inner == Slice(encoding, ptr, end - 1)
      afterReturn == SkipOneEnd(inner, 1)
      afterSelf == IF afterReturn <= Len(inner) THEN SkipOneEnd(inner, afterReturn)
                                                ELSE afterReturn
  IN IF CharAt(encoding, at) # "@" \/ CharAt(encoding, at + 1) # "?" THEN InvalidSignature
     ELSE IF CharAt(encoding, at + 2) # "<" THEN InvalidSignature
     ELSE IF end - 1 - ptr < 0 THEN LengthError
     ELSE [outcome |-> "returned", valid |-> TRUE,
           returnType |-> Slice(inner, 1, afterReturn),
           paramTypes |-> ParamTypesFrom(inner, afterSelf)]

\* encodings of block parameters, described by their parts: qualifiers, the
\* head, and for the extended form the return token, the block-self token, the
\* parameter tokens and whether the closing > is there
BlockSelf == <<"@", "?">>
ReturnTokens == {<<"v">>, <<"B">>, <<"^", "v">>, EncodeStruct(Struct(CGPointName, Leaves(<<"d", "d">>)))}
ParamTokens ==
  {<<"q">>, <<"@">>, <<"@", "?", "<", "v", "@", "?", ">">>,
   <<"^">> \o EncodeStruct(Struct(CGSizeName, Leaves(<<"d", "d">>)))}
ParamLists ==
  {<<>>} \cup {<<p>> : p \in ParamTokens} \cup {<<p, q>> : p \in ParamTokens, q \in ParamTokens}
ExtendedBlocks ==
  [form : {"extended"}, qualifiers : {<<>>, <<"r">>}, returnType : ReturnTokens,
   self : {BlockSelf}, paramTypes : ParamLists, closed : BOOLEAN]
\* the brackets with nothing in them, a plain block, and encodings of no block
OtherBlockEncodings ==
  [form : {"extended"}, qualifiers : {<<>>}, returnType : {<<>>}, self : {<<>>},
   paramTypes : {<<>>}, closed : BOOLEAN]
  \cup [form : {"plain"}, qualifiers : {<<>>, <<"r">>}, returnType : {<<>>},
        self : {<<>>}, paramTypes : {<<>>}, closed : {FALSE}]
  \cup [form : {"object", "empty"}, qualifiers : {<<>>}, returnType : {<<>>},
        self : {<<>>}, paramTypes : {<<>>}, closed : {FALSE}]
BlockDescriptions == ExtendedBlocks \cup OtherBlockEncodings

RECURSIVE Concat(_)
Concat(tokens) == IF tokens = <<>> THEN <<>> ELSE Head(tokens) \o Concat(Tail(tokens))
EncodeBlock(d) ==
  d.qualifiers \o
    (IF d.form = "extended"
       THEN <<"@", "?", "<">> \o d.returnType \o d.self \o Concat(d.paramTypes)
            \o (IF d.closed THEN <<">">> ELSE <<>>)
     ELSE IF d.form = "plain" THEN <<"@", "?">>
     ELSE IF d.form = "object" THEN <<"@">>
     ELSE <<>>)

outsideBlockSig == <<outsideConv, returnBuffer, parsed, structIo, retInstall, toJs>>

\* one call of ParseBlockSignature, on the encoding of d
ParseBlock(d) ==
  /\ blockSig = NoBlockSig
  /\ blockSig' = [desc |-> d, encoding |-> EncodeBlock(d),
                  result |-> ParseBlockSignature(EncodeBlock(d))]
  /\ UNCHANGED outsideBlockSig

NextBlockSig == \E d \in BlockDescriptions : ParseBlock(d)
SpecBlockSig == Init /\ [][NextBlockSig]_vars

\* C20: ParseBlockSignature returns, with valid exactly when the encoding,
\* after its qualifiers, has the extended form @?<...> with its closing >;
\* when valid, returnType is the first token inside the brackets, the second
\* token is dropped and paramTypes is the remaining tokens in order; without
\* the extended form or without the closing > the result is not valid.
C20_BlockSignatureParsed ==
  blockSig # NoBlockSig =>
    /\ blockSig.result.outcome = "returned"
    /\ blockSig.result.valid <=> (blockSig.desc.form = "extended" /\ blockSig.desc.closed)
    /\ blockSig.result.valid =>
         /\ blockSig.result.returnType = blockSig.desc.returnType
         /\ blockSig.result.paramTypes = blockSig.desc.paramTypes

(***************************************************************************)
(* The libffi call interface of a block (ffi-utils.h, nobjc_block.h)       *)
(***************************************************************************)
\* libffi's static types, and nullptr
FfiVoid == [type |-> "void"]
FfiPointer == [type |-> "pointer"]
FfiNull == [type |-> "nullptr"]

\* GetFFITypeForSimpleEncoding (ffi-utils.h:144-170)
GetFFITypeForSimpleEncoding(typeCode) ==
  CASE typeCode = "c" -> [type |-> "sint8"]
    [] typeCode = "i" -> [type |-> "sint32"]
    [] typeCode = "s" -> [type |-> "sint16"]
    [] typeCode = "l" -> [type |-> "slong"]
    [] typeCode = "q" -> [type |-> "sint64"]
    [] typeCode = "C" -> [type |-> "uint8"]
    [] typeCode = "I" -> [type |-> "uint32"]
    [] typeCode = "S" -> [type |-> "uint16"]
    [] typeCode = "L" -> [type |-> "ulong"]
    [] typeCode = "Q" -> [type |-> "uint64"]
    [] typeCode = "f" -> [type |-> "float"]
    [] typeCode = "d" -> [type |-> "double"]
    [] typeCode = "B" -> [type |-> "uint8"]
    [] typeCode \in {"@", "#", ":", "*", "^"} -> FfiPointer
    [] typeCode = "v" -> FfiVoid
    [] OTHER -> FfiVoid

\* GetFFITypeForEncoding (ffi-utils.h:261-290) and ParseStructEncoding
\* (ffi-utils.h:184-257): the type and the allocated types after the call.
\* SkipOneFieldEncoding takes one field's token and moves ptr past it.
RECURSIVE GetFFITypeForEncoding(_, _)
RECURSIVE StructFieldTypes(_, _, _)
StructFieldTypes(encoding, ptr, allocatedTypes) ==
  LET j == SimplifyTypeEncoding(encoding, ptr) IN
    IF j > Len(encoding) \/ encoding[j] = "}"
      THEN [ok |-> TRUE, fieldTypes |-> <<>>, allocatedTypes |-> allocatedTypes]
      ELSE Local(GetFFITypeForEncoding(Slice(encoding, j, SkipOneEnd(encoding, j)),
                                       allocatedTypes),
                 LAMBDA field :
        IF field.type = FfiNull
          THEN [ok |-> FALSE, fieldTypes |-> <<>>, allocatedTypes |-> field.allocatedTypes]
          ELSE Local(StructFieldTypes(encoding, SkipOneEnd(encoding, j),
                                      field.allocatedTypes),
                     LAMBDA rest :
                 [rest EXCEPT !.fieldTypes = <<field.type>> \o rest.fieldTypes]))
ParseStructEncoding(encoding, allocatedTypes) ==
  LET header == ParseStructEncodingHeader(encoding) IN
    IF header.empty THEN [type |-> FfiVoid, allocatedTypes |-> allocatedTypes]
    ELSE IF header.fieldsStart = 0
      THEN [type |-> FfiNull, allocatedTypes |-> allocatedTypes]
    ELSE Local(StructFieldTypes(encoding, header.fieldsStart, allocatedTypes),
               LAMBDA fields :
      IF ~fields.ok THEN [type |-> FfiNull, allocatedTypes |-> fields.allocatedTypes]
      ELSE IF fields.fieldTypes = <<>>
        THEN [type |-> FfiVoid, allocatedTypes |-> fields.allocatedTypes]
      ELSE LET structType == [type |-> "struct", elements |-> fields.fieldTypes,
                              size |-> NSGetSizeAndAlignment(encoding).size]
           IN [type |-> structType,
               allocatedTypes |-> Append(fields.allocatedTypes, structType)])
GetFFITypeForEncoding(encoding, allocatedTypes) ==
  IF encoding = <<>> THEN [type |-> FfiVoid, allocatedTypes |-> allocatedTypes]
  ELSE LET simpleEncoding ==
             Slice(encoding, SimplifyTypeEncoding(encoding, 1), Len(encoding) + 1) IN
    IF CharAt(simpleEncoding, 1) \in {"{", "("}
      THEN ParseStructEncoding(simpleEncoding, allocatedTypes)
      ELSE [type |-> GetFFITypeForSimpleEncoding(CharAt(simpleEncoding, 1)),
            allocatedTypes |-> allocatedTypes]

\* nobjc_block.h:660-677: the signature a block is created with; without the
\* extended encoding it is void with one "?" per parameter of the JS function
BlockSignatureFor(encoding, jsParamCount) ==
  Local(ParseBlockSignature(encoding), LAMBDA sig :
    IF sig.valid \/ sig.outcome # "returned" THEN sig
    ELSE [sig EXCEPT !.valid = TRUE, !.returnType = <<"v">>,
                     !.paramTypes = [i \in 1..jsParamCount |-> <<"?">>]])

\* nobjc_block.h:703-718: the FFI types of paramTypes[i..] and the guard after
RECURSIVE ParamFFITypes(_, _, _)
ParamFFITypes(paramTypes, i, ffiTypeGuard) ==
  IF i > Len(paramTypes) THEN [types |-> <<>>, ffiTypeGuard |-> ffiTypeGuard]
  ELSE
    LET simplified == Slice(paramTypes[i], SimplifyTypeEncoding(paramTypes[i], 1),
                            Len(paramTypes[i]) + 1) IN
    Local(IF CharAt(simplified, 1) = "?"
            THEN [type |-> FfiPointer, allocatedTypes |-> ffiTypeGuard]
          ELSE IF CharAt(simplified, 1) = "{"
            THEN GetFFITypeForEncoding(simplified, ffiTypeGuard)
          ELSE [type |-> GetFFITypeForSimpleEncoding(CharAt(simplified, 1)),
                allocatedTypes |-> ffiTypeGuard], LAMBDA ffiType :
    Local(ParamFFITypes(paramTypes, i + 1, ffiType.allocatedTypes), LAMBDA rest :
      [rest EXCEPT !.types = <<ffiType.type>> \o rest.types]))

\* nobjc_block.h:699-718: returnFFIType, argFFITypes and ffiTypeGuard of the
\* BlockInfo
BlockFFITypes(sig) ==
  Local(ParamFFITypes(sig.paramTypes, 1, <<>>), LAMBDA params :
    [returnFFIType |->
       GetFFITypeForSimpleEncoding(
         CharAt(sig.returnType, SimplifyTypeEncoding(sig.returnType, 1))),
     argFFITypes |-> <<FfiPointer>> \o params.types,
     ffiTypeGuard |-> params.ffiTypeGuard])

\* the blocks that are created: extended signatures with scalar and struct
\* returns and parameters, and blocks without an extended signature
PointEncoding == EncodeStruct(Struct(CGPointName, Leaves(<<"d", "d">>)))
SizeEncoding == EncodeStruct(Struct(CGSizeName, Leaves(<<"d", "d">>)))
RectEncoding ==
  EncodeStruct(Struct(CGRectName, <<Struct(CGPointName, Leaves(<<"d", "d">>)),
                                    Struct(CGSizeName, Leaves(<<"d", "d">>))>>))
CifReturnTokens == {<<"v">>, <<"q">>, <<"@">>, PointEncoding, RectEncoding}
CifParamTokens ==
  {<<"q">>, <<"@">>, <<"d">>, PointEncoding, RectEncoding, <<"r">> \o SizeEncoding}
CifParamLists ==
  {<<>>} \cup {<<p>> : p \in CifParamTokens}
         \cup {<<p, q>> : p \in CifParamTokens, q \in CifParamTokens}
MaxJsParams == 2
CifBlocks ==
  [form : {"extended"}, qualifiers : {<<>>}, returnType : CifReturnTokens,
   self : {BlockSelf}, paramTypes : CifParamLists, closed : {TRUE}]
  \cup [form : {"plain"}, qualifiers : {<<>>}, returnType : {<<>>}, self : {<<>>},
        paramTypes : {<<>>}, closed : {FALSE}]

\* CreateBlockFromJSFunction up to the call interface (nobjc_block.h:660-725)
\* for a JS function of jsParamCount parameters
BuildBlockCif(d, jsParamCount) ==
  /\ blockCif = NoBlockCif
  /\ \E sig \in {BlockSignatureFor(EncodeBlock(d), jsParamCount)} :
       /\ sig.outcome = "returned"
       /\ \E types \in {BlockFFITypes(sig)} :
            blockCif' = [desc |-> d, encoding |-> EncodeBlock(d), sig |-> sig,
                         returnFFIType |-> types.returnFFIType,
                         argFFITypes |-> types.argFFITypes,
                         ffiTypeGuard |-> types.ffiTypeGuard]
  /\ UNCHANGED outsideBlockCif

NextBlockCif == \E d \in CifBlocks : \E n \in 0..MaxJsParams : BuildBlockCif(d, n)
SpecBlockCif == Init /\ [][NextBlockCif]_vars

IsStructEncoding(t) == CharAt(t, SimplifyTypeEncoding(t, 1)) = "{"
\* the type is a struct type that the BlockInfo's guard owns
OwnedStruct(ffiType) ==
  /\ ffiType.type = "struct"
  /\ \E k \in DOMAIN blockCif.ffiTypeGuard : blockCif.ffiTypeGuard[k] = ffiType

\* C21: for a block created with an extended signature the call interface has
\* the block itself and one argument type per parsed parameter, and every
\* struct-typed parameter and a struct-typed return have the parsed struct
\* type owned by the BlockInfo's guard, never the void or the pointer type.
C21_CifMatchesSignature ==
  (blockCif # NoBlockCif /\ blockCif.desc.form = "extended") =>
    /\ Len(blockCif.argFFITypes) = Len(blockCif.desc.paramTypes) + 1
    /\ \A i \in DOMAIN blockCif.desc.paramTypes :
         IsStructEncoding(blockCif.desc.paramTypes[i])
           => OwnedStruct(blockCif.argFFITypes[i + 1])
    /\ IsStructEncoding(blockCif.desc.returnType)
         => OwnedStruct(blockCif.returnFFIType)

(***************************************************************************)
(* ForwardingPipelineCache (forwarding-common.h)                           *)
(***************************************************************************)
\* std::strncpy(dest, src, n) followed by dest[n] = NUL: the C string in dest
Strncpy(src, n) == SubSeq(src, 1, Min(Len(src), n))

\* the receivers, selectors and type encodings the pipeline is run with; the
\* encodings are v@: followed by arguments of one type, up to and beyond the
\* size of the cache's buffer
CacheKeys == {1, 2}
CacheSelectors == {1, 2}
EncodingLengths == {3, TypeEncodingSize - 1, TypeEncodingSize, TypeEncodingSize + 2}
MethodEncoding(code, n) == [i \in 1..n |-> IF i <= 3 THEN <<"v", "@", ":">>[i] ELSE code]
MethodEncodings == {MethodEncoding(code, n) : code \in {"@", "q"}, n \in EncodingLengths}

\* ForwardingPipelineCache::matches (forwarding-common.h:43-45) on the cache
\* of thread t
matches(t, k, sel) ==
  /\ pipelineCache[t].cache.valid
  /\ pipelineCache[t].cache.key = k
  /\ pipelineCache[t].cache.selector = sel

\* ForwardingPipelineCache::store (forwarding-common.h:33-39) on the
\* thread-local cache of thread t (GetForwardingCache, 47-50)
store(t, k, sel, encoding) ==
  /\ pipelineCache' = [pipelineCache EXCEPT ![t] =
       [cache |-> [key |-> k, selector |-> sel,
                   typeEncoding |-> Strncpy(encoding, TypeEncodingSize - 1),
                   valid |-> TRUE],
        stored |-> [key |-> k, selector |-> sel, encoding |-> encoding]]]
  /\ UNCHANGED outsidePipelineCache

\* ForwardingPipelineCache::invalidate (forwarding-common.h:41)
invalidate(t) ==
  /\ pipelineCache[t].cache.valid
  /\ pipelineCache' = [pipelineCache EXCEPT ![t].cache.valid = FALSE, ![t].stored = <<>>]
  /\ UNCHANGED outsidePipelineCache

NextPipelineCache ==
  \E t \in CacheThreads :
    \/ \E k \in CacheKeys, sel \in CacheSelectors, encoding \in MethodEncodings :
         store(t, k, sel, encoding)
    \/ invalidate(t)
SpecPipelineCache == Init /\ [][NextPipelineCache]_vars

\* C22: on every thread, matches(k, sel) is true exactly for the key and the
\* selector of the thread's own last store that no invalidate followed, and
\* the cached encoding then equals the stored encoding character for
\* character, whatever its length.
C22_PipelineCacheTransparent ==
  \A t \in CacheThreads :
    /\ \A k \in CacheKeys, sel \in CacheSelectors :
         matches(t, k, sel) <=>
           /\ pipelineCache[t].stored # <<>>
           /\ pipelineCache[t].stored.key = k
           /\ pipelineCache[t].stored.selector = sel
    /\ pipelineCache[t].stored # <<>> =>
         pipelineCache[t].cache.typeEncoding = pipelineCache[t].stored.encoding

(***************************************************************************)
(* Call-path operations on one type encoding (call-function.h,             *)
(* super-call-helpers.h, nobjc_block.h)                                    *)
(***************************************************************************)
\* the type codes the bridge implements (type-dispatch.h:12-21), and structs
ImplementedCodes == {"c", "i", "s", "l", "q", "C", "I", "S", "L", "Q", "f", "d", "B",
                     "*", "@", "#", ":", "^", "v", "{"}
\* encodings of implemented scalar types, and of types that are not
\* implemented: a bit-field, a C array, complex, 128-bit integers, an atom
\* and a character that is no type code
ScalarEncodings == {<<code>> : code \in ImplementedCodes \ {"{"}}
UnimplementedEncodings ==
  {<<"b", "3">>, <<"[", "4", "i", "]">>, <<"j", "d">>, <<"t">>, <<"T">>, <<"%">>, <<"x">>}
CallPathEncodings ==
  {qualifiers \o e : qualifiers \in {<<>>, <<"r">>},
                     e \in ScalarEncodings \cup UnimplementedEncodings}
IsImplemented(encoding) ==
  CharAt(encoding, SimplifyTypeEncoding(encoding, 1)) \in ImplementedCodes

\* ConvertFFIReturnToJS (ffi-utils.h:375-382) on a return buffer that the
\* callee left zero
ConvertFFIReturnToJS(typeEncoding) ==
  LET typeCode == CharAt(typeEncoding, SimplifyTypeEncoding(typeEncoding, 1))
  IN ObjCToJS(ZeroCell(typeCode), typeCode)

\* CallFunction (call-function.h:115-274) for a function without arguments
\* that dlsym found: the return type, the call, the converted result.
\* ffi_prep_cif accepts every static type as the return type.
CallFunctionWithReturn(returnType) ==
  /\ callPath = NoCallPath
  /\ \E returnFFIType \in {GetFFITypeForEncoding(returnType, <<>>).type} :
       callPath' = [path |-> "CallFunction return", encoding |-> returnType,
                    ffiType |-> returnFFIType, error |-> FALSE,
                    js |-> IF CharAt(returnType, SimplifyTypeEncoding(returnType, 1)) = "v"
                             THEN Undefined
                             ELSE ConvertFFIReturnToJS(returnType)]
  /\ UNCHANGED outsideCallPath

\* callSuper: PrepareFFIArgumentTypes (super-call-helpers.h:37-64) and
\* ExecuteFFICallAndConvert (271-308) for the return encoding of the method
CallSuperWithReturn(returnEncoding) ==
  /\ callPath = NoCallPath
  /\ \E returnFFIType \in {GetFFITypeForEncoding(returnEncoding, <<>>).type} :
       callPath' = [path |-> "callSuper return", encoding |-> returnEncoding,
                    ffiType |-> returnFFIType, error |-> FALSE,
                    js |-> IF CharAt(returnEncoding, 1) = "v"
                             THEN Undefined
                             ELSE ConvertFFIReturnToJS(returnEncoding)]
  /\ UNCHANGED outsideCallPath

\* CreateBlockFromJSFunction (nobjc_block.h:660-796) for the signature
\* @?<v@?T> with the encoding as its one parameter T: the block is created
\* and returned to JS as a handle, with the parameter's FFI type
CreateBlockWithParam(paramType) ==
  /\ callPath = NoCallPath
  /\ \E sig \in {BlockSignatureFor(<<"@", "?", "<", "v", "@", "?">> \o paramType \o <<">">>,
                                   0)} :
       /\ sig.outcome = "returned"
       /\ sig.paramTypes = <<paramType>>
       /\ callPath' = [path |-> "block parameter", encoding |-> paramType,
                       ffiType |-> BlockFFITypes(sig).argFFITypes[2],
                       error |-> FALSE, js |-> NewInstance(HeapObject)]
  /\ UNCHANGED outsideCallPath

\* the same for the signature @?<T@?> with the encoding as the return type
CreateBlockWithReturn(returnType) ==
  /\ callPath = NoCallPath
  /\ \E sig \in {BlockSignatureFor(<<"@", "?", "<">> \o returnType \o <<"@", "?", ">">>, 0)} :
       /\ sig.outcome = "returned"
       /\ sig.returnType = returnType
       /\ callPath' = [path |-> "block return", encoding |-> returnType,
                       ffiType |-> BlockFFITypes(sig).returnFFIType,
                       error |-> FALSE, js |-> NewInstance(HeapObject)]
  /\ UNCHANGED outsideCallPath

NextCallPath ==
  \E encoding \in CallPathEncodings :
    \/ CallFunctionWithReturn(encoding)
    \/ CallSuperWithReturn(encoding)
    \/ CreateBlockWithParam(encoding)
    \/ CreateBlockWithReturn(encoding)
SpecCallPath == Init /\ [][NextCallPath]_vars

\* C23: a call-path operation given an encoding whose type code is not
\* implemented ends with an error raised to the JS caller: it does not go on
\* with the void type in place of the type, and it does not return undefined.
C23_UnsupportedEncodingIsAnError ==
  (callPath # NoCallPath /\ ~IsImplemented(callPath.encoding)) => callPath.error

(***************************************************************************)
(* SubclassManager::FindSuperClassInHierarchy (subclass-manager.h)         *)
(***************************************************************************)
nullptr == 0
\* a class hierarchy of the runtime: class 1 is the root, 2 and 3 derive from
\* it, 4 from 2, 5 from 4 and 6 from 3
RootClass == 1
MaxClass == 6
Classes == RootClass..MaxClass
class_getSuperclass(cls) ==
  CASE cls = RootClass -> nullptr
    [] cls \in {2, 3} -> RootClass
    [] cls = 4 -> 2
    [] cls = 5 -> 4
    [] OTHER -> 3
\* the classes defined from JS: any but the root
JsDefinable == Classes \ {RootClass}

\* SubclassManager::FindSuperClassInHierarchy (subclass-manager.h:125-140)
FindSuperClassInHierarchy(subclasses, instanceClassPtr) ==
  IF instanceClassPtr = nullptr THEN nullptr
  ELSE IF instanceClassPtr \in DOMAIN subclasses
    THEN subclasses[instanceClassPtr].superClass
  ELSE nullptr

\* SubclassManager::Register (subclass-manager.h:77-80) with the
\* implementation of a class defined from JS, whose superClass is the class
\* it extends; emplace leaves an entry that is there alone
RegisterClass(cls) ==
  /\ cls \notin DOMAIN classRegistry.subclasses_
  /\ classRegistry' =
       [subclasses_ |-> classRegistry.subclasses_
                          @@ (cls :> [superClass |-> class_getSuperclass(cls)]),
        lookup |-> <<>>]
  /\ UNCHANGED outsideClassRegistry

\* SubclassManager::Unregister (subclass-manager.h:87-90)
UnregisterClass(cls) ==
  /\ cls \in DOMAIN classRegistry.subclasses_
  /\ classRegistry' =
       [subclasses_ |-> [c \in DOMAIN classRegistry.subclasses_ \ {cls} |->
                           classRegistry.subclasses_[c]],
        lookup |-> <<>>]
  /\ UNCHANGED outsideClassRegistry

\* a call of FindSuperClassInHierarchy with the class of an instance
FindSuperClass(instanceClassPtr) ==
  /\ classRegistry.lookup = <<>>
  /\ classRegistry' =
       [classRegistry EXCEPT !.lookup =
          [instanceClassPtr |-> instanceClassPtr,
           result |-> FindSuperClassInHierarchy(classRegistry.subclasses_,
                                                instanceClassPtr)]]
  /\ UNCHANGED outsideClassRegistry

NextClassRegistry ==
  \/ \E cls \in JsDefinable : RegisterClass(cls) \/ UnregisterClass(cls)
  \/ \E cls \in Classes \cup {nullptr} : FindSuperClass(cls)
SpecClassRegistry == Init /\ [][NextClassRegistry]_vars

\* the nearest registered class on the chain from cls up to the root, or
\* nullptr when none is registered
RECURSIVE NearestRegistered(_, _)
NearestRegistered(subclasses, cls) ==
  IF cls = nullptr THEN nullptr
  ELSE IF cls \in DOMAIN subclasses THEN cls
  ELSE NearestRegistered(subclasses, class_getSuperclass(cls))

\* C24: FindSuperClassInHierarchy returns the superClass stored for the
\* nearest registered class on the chain from the starting class upwards,
\* and nullptr only when no class on the chain is registered.
C24_FindsNearestRegisteredAncestor ==
  classRegistry.lookup # <<>> =>
    LET nearest == NearestRegistered(classRegistry.subclasses_,
                                     classRegistry.lookup.instanceClassPtr)
    IN classRegistry.lookup.result =
         IF nearest = nullptr THEN nullptr
         ELSE classRegistry.subclasses_[nearest].superClass

(***************************************************************************)
(* InvocationDataGuard (memory-utils.h)                                    *)
(***************************************************************************)
\* InvocationDataGuard::cleanup (memory-utils.h:96-112) of a guard with the
\* given members: the data after it.  The NSInvocation is released if there
\* is one, and the data is deleted.
cleanup(guard, data) ==
  IF guard.data_ # nullptr /\ ~guard.released_
    THEN [data EXCEPT
            ![guard.data_].st = "deleted",
            ![guard.data_].deletes = @ + 1,
            ![guard.data_].invocation = IF @ = "held" THEN "released" ELSE @,
            ![guard.data_].invocationReleases = IF data[guard.data_].invocation = "held"
                                                  THEN @ + 1 ELSE @]
    ELSE data

\* what a move leaves in the guard that was moved from (memory-utils.h:44-45,
\* 53-54)
MovedFromKeepsData(other) == [other EXCEPT !.movedFrom = TRUE]
MovedFrom(other) ==
  [other EXCEPT !.data_ = nullptr, !.released_ = TRUE, !.movedFrom = TRUE]

\* new InvocationData() and InvocationDataGuard guard(data)
\* (memory-utils.h:28-35), with or without an NSInvocation in the data
GuardConstruct(g, d, hasInvocation) ==
  /\ invocationGuards.guard[g].st = "none"
  /\ invocationGuards.data[d].st = "none"
  /\ \A e \in DataSlots : e < d => invocationGuards.data[e].st # "none"
  /\ invocationGuards' =
       [guard |-> [invocationGuards.guard EXCEPT ![g] =
                     [st |-> "alive", data_ |-> d, released_ |-> FALSE,
                      movedFrom |-> FALSE]],
        data |-> [invocationGuards.data EXCEPT ![d] =
                    [NoData EXCEPT !.st = "allocated",
                                   !.invocation = IF hasInvocation THEN "held" ELSE "nil"]]]
  /\ UNCHANGED outsideInvocationGuards

\* InvocationDataGuard(InvocationDataGuard&& other) (memory-utils.h:42-46)
GuardMoveConstruct(g, other) ==
  /\ invocationGuards.guard[g].st = "none"
  /\ invocationGuards.guard[other].st = "alive"
  /\ invocationGuards' =
       [invocationGuards EXCEPT
          !.guard[g] = [st |-> "alive", data_ |-> invocationGuards.guard[other].data_,
                        released_ |-> invocationGuards.guard[other].released_,
                        movedFrom |-> FALSE],
          !.guard[other] = MovedFrom(invocationGuards.guard[other])]
  /\ UNCHANGED outsideInvocationGuards

\* operator=(InvocationDataGuard&& other) (memory-utils.h:48-57)
GuardMoveAssign(g, other) ==
  /\ invocationGuards.guard[g].st = "alive"
  /\ invocationGuards.guard[other].st = "alive"
  /\ IF g = other
       THEN UNCHANGED invocationGuards
       ELSE invocationGuards' =
              [guard |-> [invocationGuards.guard EXCEPT
                            ![g] = [st |-> "alive",
                                    data_ |-> invocationGuards.guard[other].data_,
                                    released_ |-> invocationGuards.guard[other].released_,
                                    movedFrom |-> FALSE],
                            ![other] = MovedFrom(invocationGuards.guard[other])],
               data |-> cleanup(invocationGuards.guard[g], invocationGuards.data)]
  /\ UNCHANGED outsideInvocationGuards

\* InvocationDataGuard::release (memory-utils.h:68-78)
GuardRelease(g) ==
  /\ invocationGuards.guard[g].st = "alive"
  /\ invocationGuards' =
       [guard |-> [invocationGuards.guard EXCEPT ![g].released_ = TRUE,
                                                 ![g].data_ = nullptr],
        data |-> IF invocationGuards.guard[g].data_ = nullptr
                   THEN invocationGuards.data
                   ELSE [invocationGuards.data EXCEPT
                           ![invocationGuards.guard[g].data_].releaseCalled = TRUE]]
  /\ UNCHANGED outsideInvocationGuards

\* ~InvocationDataGuard (memory-utils.h:59-61)
GuardDestroy(g) ==
  /\ invocationGuards.guard[g].st = "alive"
  /\ invocationGuards' =
       [guard |-> [invocationGuards.guard EXCEPT ![g].st = "destroyed"],
        data |-> cleanup(invocationGuards.guard[g], invocationGuards.data)]
  /\ UNCHANGED outsideInvocationGuards

NextInvocationGuards ==
  \E g \in GuardSlots :
    \/ \E d \in DataSlots, hasInvocation \in BOOLEAN : GuardConstruct(g, d, hasInvocation)
    \/ \E other \in GuardSlots : GuardMoveConstruct(g, other) \/ GuardMoveAssign(g, other)
    \/ GuardRelease(g)
    \/ GuardDestroy(g)
SpecInvocationGuards == Init /\ [][NextInvocationGuards]_vars

\* the living guards that will clean up d
OwnersOf(d) ==
  {g \in GuardSlots : /\ invocationGuards.guard[g].st = "alive"
                      /\ invocationGuards.guard[g].data_ = d
                      /\ ~invocationGuards.guard[g].released_}

\* C25: an InvocationData is deleted, and its NSInvocation released, at most
\* once; not at all once release() was called on its owning guard; exactly
\* once when release() was never called and no living guard owns it any more;
\* at most one guard owns it, and a moved-from guard owns nothing.
C25_GuardOwnership ==
  /\ \A d \in DataSlots :
       LET data == invocationGuards.data[d] IN
         data.st # "none" =>
           /\ data.deletes <= 1
           /\ data.invocationReleases <= 1
           /\ Cardinality(OwnersOf(d)) <= 1
           /\ data.releaseCalled => (data.deletes = 0 /\ data.invocationReleases = 0
                                     /\ OwnersOf(d) = {})
           /\ (~data.releaseCalled /\ OwnersOf(d) = {}) =>
                (data.deletes = 1 /\ data.invocation # "held")
           /\ OwnersOf(d) # {} => data.deletes = 0
  /\ \A g \in GuardSlots :
       (invocationGuards.guard[g].st = "alive" /\ invocationGuards.guard[g].movedFrom)
         => invocationGuards.guard[g].data_ = nullptr

\* one data with an NSInvocation went through a move and was deleted by the
\* destructor of the guard it was moved to, after the guard it was moved from
\* was destroyed too
C25_Witness ==
  /\ invocationGuards.data[1].deletes = 1
  /\ invocationGuards.data[1].invocationReleases = 1
  /\ invocationGuards.data[2].st = "none"
  /\ \E g, h \in GuardSlots :
       /\ invocationGuards.guard[g].st = "destroyed" /\ invocationGuards.guard[g].movedFrom
       /\ invocationGuards.guard[h].st = "destroyed" /\ ~invocationGuards.guard[h].movedFrom

(***************************************************************************)
(* CreateBlockFromJSFunction: the registry and the FFI closures            *)
(* (nobjc_block.h)                                                         *)
(***************************************************************************)
MaxCreates == 4

\* ffi_closure_free on closure number c
ffi_closure_free(closures, c) ==
  [closures EXCEPT ![c] = [st |-> "freed", frees |-> @.frees + 1]]

\* BlockInfo::~BlockInfo (nobjc_block.h:296-304), run when the unique_ptr
\* that holds the BlockInfo goes out of scope
BlockInfoDtor(closures, closure) ==
  IF closure # nullptr THEN ffi_closure_free(closures, closure) ELSE closures

\* blockInfo->closure after a failed ffi_prep_cif or ffi_prep_closure_loc
\* (nobjc_block.h:747, 763)
ClosureLeftDangling(closure) == closure
ClosureAfterFree(closure) == nullptr

\* the closures after a call that allocated closure c and ended with result
ClosuresAfter(closures, c, result) ==
  CASE result = "alloc_failed" -> BlockInfoDtor(closures, nullptr)
    [] result \in {"prep_cif_failed", "prep_closure_failed"} ->
         BlockInfoDtor(ffi_closure_free(closures, c), ClosureAfterFree(c))
    [] result = "block_copy_failed" -> BlockInfoDtor(closures, c)
    [] OTHER -> closures

\* CreateBlockFromJSFunction (nobjc_block.h:654-799) on the JS thread, from
\* the closure allocation to the return.  ffi_closure_alloc gives a new
\* closure or fails; a failing step throws to JS and returns nil, which
\* destroys the BlockInfo; success moves the BlockInfo into g_blockRegistry.
\* returned keeps the block and the error thrown by each call.
CreateBlockFromJSFunction(result) ==
  /\ Len(blockFactory.returned) < MaxCreates
  /\ LET c == Len(blockFactory.closures) + 1
         allocated == IF result = "alloc_failed"
                        THEN blockFactory.closures
                        ELSE Append(blockFactory.closures, [st |-> "allocated", frees |-> 0])
         heapBlock == Len(blockFactory.returned) + 1
     IN blockFactory' =
          [registry |-> IF result = "ok"
                          THEN Append(blockFactory.registry,
                                      [heapBlock |-> heapBlock, closure |-> c])
                          ELSE blockFactory.registry,
           closures |-> ClosuresAfter(allocated, c, result),
           returned |-> Append(blockFactory.returned,
                               [block |-> IF result = "ok" THEN heapBlock ELSE nil,
                                error |-> IF result = "ok" THEN "none" ELSE result])]
  /\ UNCHANGED outsideBlockFactory

NextBlockFactory == \E result \in CreateOutcomes : CreateBlockFromJSFunction(result)
SpecBlockFactory == Init /\ [][NextBlockFactory]_vars

\* the blocks the calls returned, in the order of the calls
ReturnedBlocks ==
  LET blocks == SelectSeq(blockFactory.returned, LAMBDA r : r.block # nil)
  IN [i \in DOMAIN blocks |-> blocks[i].block]
\* the registered BlockInfos that hold closure c
HoldersOf(c) ==
  {i \in DOMAIN blockFactory.registry : blockFactory.registry[i].closure = c}

\* C26: the registry holds one BlockInfo per call that returned a block, in
\* the order of the calls; a step of the factory leaves the registry as it is
\* or appends one BlockInfo; and every closure that was allocated is either
\* held by exactly one registered BlockInfo and not freed, or held by none
\* and freed exactly once.
C26_RegistryAndClosures ==
  /\ [](/\ [i \in DOMAIN blockFactory.registry |-> blockFactory.registry[i].heapBlock]
             = ReturnedBlocks
        /\ \A c \in DOMAIN blockFactory.closures :
             \/ /\ Cardinality(HoldersOf(c)) = 1
                /\ blockFactory.closures[c] = [st |-> "allocated", frees |-> 0]
             \/ /\ HoldersOf(c) = {}
                /\ blockFactory.closures[c] = [st |-> "freed", frees |-> 1])
  /\ [][\/ blockFactory'.registry = blockFactory.registry
        \/ /\ Len(blockFactory'.registry) = Len(blockFactory.registry) + 1
           /\ SubSeq(blockFactory'.registry, 1, Len(blockFactory.registry))
                = blockFactory.registry
           /\ blockFactory'.returned[Len(blockFactory'.returned)].block # nil]_vars

\* two calls failed between two successful creations, and a closure was freed
C26_Witness ==
  /\ Len(blockFactory.registry) = 2
  /\ Len(blockFactory.returned) = MaxCreates
  /\ blockFactory.returned[1].block # nil
  /\ blockFactory.returned[MaxCreates].block # nil
  /\ \E c \in DOMAIN blockFactory.closures : blockFactory.closures[c].st = "freed"

(***************************************************************************)
(* callSuper: the libffi argument arrays (super-call-helpers.h,            *)
(* ffi-utils.h)                                                            *)
(***************************************************************************)
MaxSuperArgs == 2
\* the argument encodings of the superclass methods called, and the JS values
\* passed for them
SuperArgEncodings == {<<"@">>, <<"^", "@">>, <<"o", "^", "@">>, <<"i">>, <<"d">>, <<"*">>}
SuperJsValues == {Whole(SmallInteger), Str(EmptyString), JsNull, NewInstance(HeapObject)}
ListsOver(S, n) == UNION {[1..k -> S] : k \in 0..n}
\* NoSignature: instanceMethodSignatureForSelector: gave nil
NoSignature == [found |-> FALSE, args |-> <<>>]
MethodSignatures ==
  {[found |-> TRUE, args |-> a] : a \in ListsOver(SuperArgEncodings, MaxSuperArgs)}
    \cup {NoSignature}
\* [methodSig numberOfArguments]: self, _cmd and the method's own arguments
numberOfArguments(methodSig) == 2 + Len(methodSig.args)
\* [methodSig getArgumentTypeAtIndex:i], i counted from 0
getArgumentTypeAtIndex(methodSig, i) == methodSig.args[i - 1]

\* a buffer of an FFIArgumentContext is named by the number make_unique gave it
make_unique(c) == c.made + 1
BufferAt(c, address) ==
  IF \E k \in 1..Len(c.argBuffers) : c.argBuffers[k].address = address
    THEN (CHOOSE b \in {c.argBuffers[k] : k \in 1..Len(c.argBuffers)} :
            b.address = address).holds
    ELSE [kind |-> "freed"]

\* what AsObjCArgument gives for a JS value and an encoding: the alternative
\* of the ObjcType variant that holds the converted value, or nullopt
nullopt == [has_value |-> FALSE]
AsObjCArgument(jsValue, typeEncoding) ==
  LET code == CharAt(typeEncoding, SimplifyTypeEncoding(typeEncoding, 1))
  IN CASE code \in IntegerCodes \cup FloatCodes /\ (IsNumber(jsValue) \/ IsBoolean(jsValue))
            -> [has_value |-> TRUE, alternative |-> "primitive", value |-> jsValue]
       [] code \in {"@", "#"} /\ jsValue.t = "ObjcObject"
            -> [has_value |-> TRUE, alternative |-> "id", value |-> jsValue.id]
       [] code \in {"@", "#"} /\ IsNullish(jsValue)
            -> [has_value |-> TRUE, alternative |-> "id", value |-> nil]
       [] code = ":" /\ jsValue.t = "string"
            -> [has_value |-> TRUE, alternative |-> "SEL", value |-> sel_registerName(jsValue.s)]
       [] code = "*" /\ jsValue.t = "string"
            -> [has_value |-> TRUE, alternative |-> "std::string", value |-> jsValue.s]
       [] OTHER -> nullopt

\* ExtractJSArgumentToBuffer (ffi-utils.h:294-371), called as the call-th
\* extraction: what it writes into the buffer, or that it throws.  For a
\* std::string the buffer gets innerArg.c_str(), and innerArg is the string
\* inside objcType, the function's own copy of optType.value() (line 307).
\* The other alternatives are copied by value; an id refers to the object
\* the JS wrapper holds.
StringStorage(call) == [object |-> "objcType", of |-> "ExtractJSArgumentToBuffer", call |-> call]
ExtractJSArgumentToBuffer(jsValue, typeEncoding, call) ==
  LET optType == AsObjCArgument(jsValue, typeEncoding)
  IN IF ~optType.has_value THEN [threw |-> TRUE]
     ELSE [threw |-> FALSE,
           holds |-> IF optType.alternative = "std::string"
                       THEN [kind |-> "const char*", value |-> optType.value,
                             pointsInto |-> StringStorage(call)]
                       ELSE [kind |-> optType.alternative, value |-> optType.value]]

\* PrepareFFIArgumentTypes (super-call-helpers.h:37-64): the types of the
\* arguments i.. of the method, after the two pointers
RECURSIVE MethodArgFFITypes(_, _, _)
MethodArgFFITypes(methodSig, i, c) ==
  IF i >= numberOfArguments(methodSig) THEN c
  ELSE Local(GetFFITypeForEncoding(getArgumentTypeAtIndex(methodSig, i), c.allocatedTypes),
             LAMBDA argType :
               MethodArgFFITypes(methodSig, i + 1,
                 [c EXCEPT !.argFFITypes = Append(@, argType.type),
                           !.allocatedTypes = argType.allocatedTypes]))
PrepareFFIArgumentTypes(methodSig, c) ==
  MethodArgFFITypes(methodSig, 2,
                    [c EXCEPT !.argFFITypes = @ \o <<FfiPointer, FfiPointer>>])

\* one buffer made, filled and pushed with its address (76-80, 85-89, 157-179)
PushBuffer(c, holds) ==
  [c EXCEPT !.made = make_unique(c),
            !.argBuffers = Append(@, [address |-> make_unique(c), holds |-> holds]),
            !.argValues = Append(@, make_unique(c))]

\* AddFixedFFIArguments (super-call-helpers.h:69-92)
AddFixedFFIArguments(c) ==
  PushBuffer(PushBuffer(c, [kind |-> "objc_super*"]), [kind |-> "SEL"])

\* the argument a call would get if the storage itself were passed
OutParamArgValueIsStorage(errorStoragePtr, pointerBufferPtr) == errorStoragePtr
\* ExtractOutParamArgument pushes the address of the pointer buffer (124)
OutParamArgValue(errorStoragePtr, pointerBufferPtr) == pointerBufferPtr

\* ExtractOutParamArgument (super-call-helpers.h:98-129): handled is its
\* return value
ExtractOutParamArgument(simpleArgEncoding, c) ==
  IF CharAt(simpleArgEncoding, 1) # "^" \/ CharAt(simpleArgEncoding, 2) # "@"
    THEN [handled |-> FALSE, c |-> c]
    ELSE LET errorStoragePtr == c.made + 1
             pointerBufferPtr == c.made + 2
         IN [handled |-> TRUE,
             c |-> [c EXCEPT
                      !.made = pointerBufferPtr,
                      !.argValues = Append(@, OutParamArgValue(errorStoragePtr,
                                                               pointerBufferPtr)),
                      !.argBuffers = @ \o
                         << [address |-> errorStoragePtr,
                             holds |-> [kind |-> "id", value |-> nil]],
                            [address |-> pointerBufferPtr,
                             holds |-> [kind |-> "pointer", value |-> errorStoragePtr]] >>]]

\* ExtractRegularArgument (super-call-helpers.h:134-180)
ExtractRegularArgument(jsValue, argEncoding, call, c) ==
  LET extracted == ExtractJSArgumentToBuffer(jsValue, argEncoding, call)
  IN IF extracted.threw THEN [threw |-> TRUE, c |-> c]
     ELSE [threw |-> FALSE, c |-> PushBuffer(c, extracted.holds)]

\* ExtractMethodArguments (super-call-helpers.h:185-219) from the JS
\* argument i (counted from 1) on
RECURSIVE ExtractMethodArguments(_, _, _, _)
ExtractMethodArguments(info, i, methodSig, c) ==
  IF i > Len(info) THEN [threw |-> FALSE, c |-> c]
  ELSE LET argEncoding == getArgumentTypeAtIndex(methodSig, i + 1)
           simpleArgEncoding ==
             Slice(argEncoding, SimplifyTypeEncoding(argEncoding, 1), Len(argEncoding) + 1)
       IN Local(ExtractOutParamArgument(simpleArgEncoding, c), LAMBDA out :
            IF out.handled THEN ExtractMethodArguments(info, i + 1, methodSig, out.c)
            ELSE Local(ExtractRegularArgument(info[i], argEncoding, i, c), LAMBDA reg :
                   IF reg.threw THEN reg
                   ELSE ExtractMethodArguments(info, i + 1, methodSig, reg.c)))

\* ---- one callSuper, step by step
\* ValidateSuperMethod (super-call-helpers.h:314-361) for a call with the JS
\* arguments info: the signature, or an error thrown to JS
ValidateSuperMethod(methodSig, info) ==
  /\ superCall = NoSuperCall
  /\ superCall' =
       [NoSuperCall EXCEPT
          !.methodSig = methodSig, !.info = info,
          !.stage = IF methodSig.found /\ Len(info) = numberOfArguments(methodSig) - 2
                      THEN "validated" ELSE "threw"]
  /\ UNCHANGED outsideSuperCall

PrepareTypes ==
  /\ superCall.stage = "validated"
  /\ superCall' = [superCall EXCEPT
                     !.stage = "types",
                     !.c = PrepareFFIArgumentTypes(superCall.methodSig, @)]
  /\ UNCHANGED outsideSuperCall

AddFixed ==
  /\ superCall.stage = "types"
  /\ superCall' = [superCall EXCEPT !.stage = "fixed", !.c = AddFixedFFIArguments(@)]
  /\ UNCHANGED outsideSuperCall

\* the extraction calls have returned when this step ends: their locals are
\* gone
ExtractArguments ==
  /\ superCall.stage = "fixed"
  /\ \E r \in {ExtractMethodArguments(superCall.info, 1, superCall.methodSig, superCall.c)} :
       superCall' = [superCall EXCEPT
                       !.stage = IF r.threw THEN "threw" ELSE "extracted",
                       !.c = r.c,
                       !.ended = {StringStorage(call) : call \in 1..Len(superCall.info)}]
  /\ UNCHANGED outsideSuperCall

\* ExecuteFFICallAndConvert (super-call-helpers.h:271-308) up to ffi_call,
\* which reads every argument through argValues
ExecuteFFICall ==
  /\ superCall.stage = "extracted"
  /\ superCall' = [superCall EXCEPT !.stage = "ffi_call"]
  /\ UNCHANGED outsideSuperCall

NextSuperCall ==
  \/ \E methodSig \in MethodSignatures, info \in ListsOver(SuperJsValues, MaxSuperArgs) :
       ValidateSuperMethod(methodSig, info)
  \/ PrepareTypes
  \/ AddFixed
  \/ ExtractArguments
  \/ ExecuteFFICall

SpecSuperCall == Init /\ [][NextSuperCall]_vars

IsOutParam(argEncoding) ==
  LET first == SimplifyTypeEncoding(argEncoding, 1)
  IN CharAt(argEncoding, first) = "^" /\ CharAt(argEncoding, first + 1) = "@"

\* C27: once AddFixedFFIArguments and ExtractMethodArguments have run on a
\* validated call, argValues has numberOfArguments entries, one per entry of
\* argFFITypes (two pointers for objc_super* and SEL, then the type of each
\* method argument), each the address of a buffer of its own that the context
\* owns; for an argument of encoding ^@ that buffer holds the address of
\* another owned buffer, which holds nil, whatever JS value was passed.
C27_SuperArgumentLayout ==
  superCall.stage \in {"extracted", "ffi_call"} =>
    LET c == superCall.c
        n == numberOfArguments(superCall.methodSig)
    IN /\ Len(c.argValues) = n
       /\ Len(c.argFFITypes) = n
       /\ c.argFFITypes[1] = FfiPointer /\ BufferAt(c, c.argValues[1]).kind = "objc_super*"
       /\ c.argFFITypes[2] = FfiPointer /\ BufferAt(c, c.argValues[2]).kind = "SEL"
       /\ \A i, j \in 1..n : i # j => c.argValues[i] # c.argValues[j]
       /\ \A i \in 3..n :
            LET argEncoding == superCall.methodSig.args[i - 2]
                code == CharAt(argEncoding, SimplifyTypeEncoding(argEncoding, 1))
                slot == BufferAt(c, c.argValues[i])
            IN /\ c.argFFITypes[i] = GetFFITypeForSimpleEncoding(code)
               /\ slot.kind # "freed"
               /\ IsOutParam(argEncoding) =>
                    /\ slot.kind = "pointer"
                    /\ slot.value # c.argValues[i]
                    /\ slot.value \notin {c.argValues[k] : k \in 1..n}
                    /\ BufferAt(c, slot.value) = [kind |-> "id", value |-> nil]

\* a call with an out-parameter for which JS passed an object, and one more
\* argument, has been prepared
C27_Witness ==
  /\ superCall.stage = "ffi_call"
  /\ Len(superCall.info) = 2
  /\ IsOutParam(superCall.methodSig.args[1])
  /\ superCall.info[1] = NewInstance(HeapObject)
  /\ ~IsOutParam(superCall.methodSig.args[2])

(***************************************************************************)
(* CallFunction: the argument buffers up to ffi_call (call-function.h)     *)
(***************************************************************************)
MaxFunctionArgs == 2
FunctionArgEncodings == {<<"@">>, <<"i">>, <<"*">>, <<"r", "*">>, <<":">>, PointEncoding}
FunctionJsValues ==
  {Whole(SmallInteger), Str(EmptyString), NewInstance(HeapObject),
   Obj(<<XName, YName>>, <<Whole(1), Whole(2)>>)}

\* ExtractFunctionArgument (call-function.h:38-85) for argument argIndex:
\* what the owned buffer it returns holds, or that it throws
ExtractFunctionArgument(jsValue, typeEncoding, argIndex) ==
  IF CharAt(typeEncoding, SimplifyTypeEncoding(typeEncoding, 1)) = "{"
    THEN Local(PackJSValueAsStruct(jsValue, typeEncoding), LAMBDA structBytes :
           IF ~structBytes.ok THEN [threw |-> TRUE]
           ELSE [threw |-> FALSE, holds |-> [kind |-> "struct", value |-> structBytes.v]])
    ELSE ExtractJSArgumentToBuffer(jsValue, typeEncoding, argIndex)

\* the loop of CallFunction (call-function.h:237-243) from argument i on
RECURSIVE ExtractFunctionArguments(_, _, _, _)
ExtractFunctionArguments(info, argTypes, i, c) ==
  IF i > Len(argTypes) THEN [threw |-> FALSE, c |-> c]
  ELSE Local(ExtractFunctionArgument(info[i], argTypes[i], i), LAMBDA buffer :
         IF buffer.threw THEN [threw |-> TRUE, c |-> c]
         ELSE ExtractFunctionArguments(info, argTypes, i + 1, PushBuffer(c, buffer.holds)))

\* CallFunction (call-function.h:115-243) with as many JS arguments as
\* argument types, for a symbol dlsym found and a call interface
\* ffi_prep_cif accepted: up to the end of the extraction loop, when every
\* extraction call has returned
CallFunctionExtract(argTypes, info) ==
  /\ functionCall = NoFunctionCall
  /\ Len(info) = Len(argTypes)
  /\ \E r \in {ExtractFunctionArguments(info, argTypes, 1, NoFFIArgumentContext)} :
       functionCall' = [stage |-> IF r.threw THEN "threw" ELSE "extracted",
                        argTypes |-> argTypes, info |-> info, c |-> r.c,
                        ended |-> {StringStorage(call) : call \in 1..Len(info)}]
  /\ UNCHANGED outsideFunctionCall

\* call-function.h:246-265: the return buffer, then ffi_call reads every
\* argument through argValues; argBuffers is still in scope
CallFunctionFfiCall ==
  /\ functionCall.stage = "extracted"
  /\ functionCall' = [functionCall EXCEPT !.stage = "ffi_call"]
  /\ UNCHANGED outsideFunctionCall

NextFunctionCall ==
  \/ \E n \in 0..MaxFunctionArgs :
       \E argTypes \in [1..n -> FunctionArgEncodings], info \in [1..n -> FunctionJsValues] :
         CallFunctionExtract(argTypes, info)
  \/ CallFunctionFfiCall

\* one call per behaviour: a CallFunction or a callSuper
NextArgumentLifetime ==
  \/ superCall = NoSuperCall /\ NextFunctionCall
  \/ functionCall = NoFunctionCall /\ NextSuperCall

SpecArgumentLifetime == Init /\ [][NextArgumentLifetime]_vars

\* the pointers an argument buffer of the context holds into storage that
\* has a lifetime of its own
PointersInto(c) ==
  {c.argBuffers[k].holds.pointsInto :
     k \in {j \in 1..Len(c.argBuffers) : c.argBuffers[j].holds.kind = "const char*"}}

\* C28: when ffi_call executes, in CallFunction and in callSuper, every
\* pointer that ExtractJSArgumentToBuffer stored in an argument buffer, the
\* character pointer of a C string argument included, refers to storage that
\* is still alive.
C28_ArgumentStorageAlive ==
  /\ functionCall.stage = "ffi_call" =>
       PointersInto(functionCall.c) \cap functionCall.ended = {}
  /\ superCall.stage = "ffi_call" =>
       PointersInto(superCall.c) \cap superCall.ended = {}

(***************************************************************************)
(* SimplifyTypeEncoding and the storage its result points into             *)
(* (type-conversion.h, struct-utils.h, nobjc_block.h, call-function.h)     *)
(***************************************************************************)
\* A C string is looked at through a view [buffer, in, at]: position at of
\* a string that nothing changes (in is its characters), or of the bytes of
\* the thread_local buffer of SimplifyTypeEncoding.  The buffer
\* is [bytes, size]: its characters are bytes[1..size], bytes[size + 1] is
\* the terminator, and the bytes after it are what earlier contents left.
BufferView == [buffer |-> TRUE, in |-> <<>>, at |-> 1]
EmptyBuffer == [bytes |-> <<"NUL">>, size |-> 0]
ViewOf(s) == [buffer |-> FALSE, in |-> s, at |-> 1]
Advance(view, n) == [view EXCEPT !.at = @ + n]
\* the bytes from position i up to the next NUL
RECURSIVE UpToNul(_, _)
UpToNul(bytes, i) ==
  IF i > Len(bytes) \/ bytes[i] = "NUL" THEN <<>>
  ELSE <<bytes[i]>> \o UpToNul(bytes, i + 1)
\* what a read of bytes past the terminator can give: the bytes that an
\* earlier content left there, or nothing
StaleReads == {"kept", "zeroed"}
\* the C string a view denotes now
ReadAt(buf, view, stale) ==
  IF ~view.buffer THEN Slice(view.in, view.at, Len(view.in) + 1)
  ELSE IF view.at <= buf.size + 1 THEN Slice(buf.bytes, view.at, buf.size + 1)
  ELSE IF stale = "kept" THEN UpToNul(buf.bytes, view.at)
  ELSE <<>>

\* buffer = typeEncoding and the erase loop (type-conversion.h:49-56): the
\* stripped text, terminators where the erased characters and the old
\* terminator were, and the earlier bytes after them
AssignStripped(buf, text) ==
  LET stripped == Slice(text, SimplifyTypeEncoding(text, 1), Len(text) + 1)
  IN [bytes |-> stripped \o [k \in 1..(Len(text) - Len(stripped) + 1) |-> "NUL"]
                  \o SubSeq(buf.bytes, Len(text) + 2, Len(buf.bytes)),
      size |-> Len(stripped)]

\* SimplifyTypeEncoding (type-conversion.h:38-58) as the code has it: the
\* argument itself when it starts with no qualifier, else a pointer to the
\* buffer, which now holds the stripped text
SimplifyTypeEncodingView(buf, typeEncoding, stale) ==
  LET text == ReadAt(buf, typeEncoding, stale)
  IN IF CharAt(text, 1) \notin Qualifiers
       THEN [buf |-> buf, view |-> typeEncoding]
       ELSE [buf |-> AssignStripped(buf, text), view |-> BufferView]

\* a use of a view after other calls were made: what was read, and what the
\* view denoted when its holder got it
Use(read, denoted) == [read |-> read, denoted |-> denoted]

\* ParseStructFields (struct-utils.h:133-185) with ptr a view that denoted
\* the text denoted when the loop was last entered: the buffer afterwards,
\* the type encodings of the fields, and the uses of ptr at the loop head
RECURSIVE ParseStructFieldsAt(_, _, _, _)
ParseStructFieldsAt(buf, ptr, denoted, stale) ==
  LET head == ReadAt(buf, ptr, stale)
      here == Use(head, denoted)
  IN IF CharAt(head, 1) \in {"NUL", "}"}
       THEN [buf |-> buf, fields |-> <<>>, uses |-> <<here>>]
     ELSE
       Local(SimplifyTypeEncodingView(buf, ptr, stale), LAMBDA simple :
       Local(ReadAt(simple.buf, simple.view, stale), LAMBDA text :
         IF CharAt(text, 1) = "}"
           THEN [buf |-> simple.buf, fields |-> <<>>, uses |-> <<here>>]
         ELSE
           LET quoted == CharAt(text, 1) = Quote
               nameEnd == FindChar(text, 2, Quote)
               k == IF ~quoted THEN 1
                    ELSE IF CharAt(text, nameEnd) = Quote THEN nameEnd + 1 ELSE nameEnd
               e == SkipOneEnd(text, k)
               typeEncoding == Slice(text, k, e)
               subHeader == ParseStructEncodingHeader(typeEncoding)
               nested == CharAt(typeEncoding, 1) = "{" /\ subHeader.fieldsStart # 0
               sub == IF nested
                        THEN ParseStructFieldsAt(simple.buf,
                               Advance(ViewOf(typeEncoding), subHeader.fieldsStart - 1),
                               Slice(typeEncoding, subHeader.fieldsStart,
                                     Len(typeEncoding) + 1),
                               stale)
                        ELSE [buf |-> simple.buf, fields |-> <<>>, uses |-> <<>>]
           IN Local(sub, LAMBDA inner :
              Local(ParseStructFieldsAt(inner.buf, Advance(simple.view, e - 1),
                                        Slice(text, e, Len(text) + 1), stale),
                    LAMBDA rest :
                [buf |-> rest.buf,
                 fields |-> <<typeEncoding>> \o inner.fields \o rest.fields,
                 uses |-> <<here>> \o inner.uses \o rest.uses]))))

\* ParseStructEncodingWithNames (struct-utils.h:197-275) on a view: the
\* fields, and the uses of encoding and ptr; encoding is used again for the
\* total size when the fields have been parsed (line 265)
ParseStructEncodingWithNamesAt(buf, encoding, stale) ==
  LET text == ReadAt(buf, encoding, stale)
      header == ParseStructEncodingHeader(text)
  IN IF header.fieldsStart = 0
       THEN [buf |-> buf, fields |-> <<>>, uses |-> <<>>, totalSize |-> 0]
       ELSE Local(ParseStructFieldsAt(buf, Advance(encoding, header.fieldsStart - 1),
                                      Slice(text, header.fieldsStart, Len(text) + 1),
                                      stale),
                  LAMBDA walked :
              Local(ReadAt(walked.buf, encoding, stale), LAMBDA again :
                [buf |-> walked.buf, fields |-> walked.fields,
                 uses |-> walked.uses \o <<Use(again, text)>>,
                 totalSize |-> NSGetSizeAndAlignment(again).size]))

\* UnpackStructToJSValue (struct-utils.h:709-736) for an encoding that the
\* cache of GetOrParseStructEncoding (284-293) does not hold: the well-known
\* structs are unpacked without parsing
UnpackStructToJSValueAt(buf, typeEncoding, stale) ==
  IF ExtractStructName(ReadAt(buf, typeEncoding, stale))
       \in {CGRectName, NSRectName, CGPointName, NSPointName, CGSizeName, NSSizeName,
            NSRangeName, NSRangeAlias}
    THEN [buf |-> buf, fields |-> <<>>, uses |-> <<>>, totalSize |-> 0]
    ELSE ParseStructEncodingWithNamesAt(buf, typeEncoding, stale)

\* ---- the encodings converted
ViewQualifiers == {<<>>, <<"r">>}
ViewFirstFields == {<<"i">>, <<"r", "^", "v">>}
ViewInnerFields == {<<"*", "i">>, <<"r", "*", "i">>, <<"n", "^", "v", "d">>}
ViewNames == {PairName, CGPointName}
ViewLasts == {<<>>, <<"d">>}
ViewEncodings ==
  {q \o <<"{">> \o name \o <<"=">> \o first \o nestedField \o last \o <<"}">> :
     q \in ViewQualifiers, name \in ViewNames, first \in ViewFirstFields,
     nestedField \in {<<>>} \cup {<<"{">> \o OuterName \o <<"=">> \o inner \o <<"}">> :
                                    inner \in ViewInnerFields},
     last \in ViewLasts}
\* what the buffer holds from earlier calls on the thread
EarlierBuffers == {EmptyBuffer, AssignStripped(EmptyBuffer, <<"r", "*">>)}

Converted(path, typeEncoding, stale, simple, result) ==
  /\ encodingView' = [path |-> path, typeEncoding |-> typeEncoding, stale |-> stale,
                      simplified |-> simple.view, fields |-> result.fields,
                      uses |-> result.uses, totalSize |-> result.totalSize]
  /\ UNCHANGED outsideEncodingView

\* ConvertBlockArgToJS (nobjc_block.h:403-428) for a struct parameter: the
\* struct is unpacked from the simplified encoding
ConvertStructBlockArg(typeEncoding, earlier, stale) ==
  /\ encodingView = NoEncodingView
  /\ \E simple \in {SimplifyTypeEncodingView(earlier, ViewOf(typeEncoding), stale)} :
       Converted("ConvertBlockArgToJS", typeEncoding, stale, simple,
                 UnpackStructToJSValueAt(simple.buf, simple.view, stale))

\* ConvertFunctionReturnToJS (call-function.h:90-102) for a struct return:
\* the struct is unpacked from the encoding as given
ConvertStructFunctionReturn(typeEncoding, earlier, stale) ==
  /\ encodingView = NoEncodingView
  /\ \E simple \in {SimplifyTypeEncodingView(earlier, ViewOf(typeEncoding), stale)} :
       Converted("ConvertFunctionReturnToJS", typeEncoding, stale, simple,
                 UnpackStructToJSValueAt(simple.buf, ViewOf(typeEncoding), stale))

NextEncodingView ==
  \E typeEncoding \in ViewEncodings, earlier \in EarlierBuffers, stale \in StaleReads :
    \/ ConvertStructBlockArg(typeEncoding, earlier, stale)
    \/ ConvertStructFunctionReturn(typeEncoding, earlier, stale)

SpecEncodingView == Init /\ [][NextEncodingView]_vars

\* C29: a view that SimplifyTypeEncoding returned, or a pointer derived from
\* it, denotes at every later use what it denoted when the caller got it,
\* also when the thread has called SimplifyTypeEncoding for another
\* qualified encoding in between.
C29_ViewStaysValid ==
  \A k \in 1..Len(encodingView.uses) :
    encodingView.uses[k].read = encodingView.uses[k].denoted

(***************************************************************************)
(* The registry interface of ProtocolManager and SubclassManager, called   *)
(* with any key (protocol-manager.h, subclass-manager.h)                   *)
(***************************************************************************)
MaxRegistrations == 3
\* registryApi is [map, keys, made, last]: each registry's map, the keys
\* registered and not unregistered since, the implementations made, and the
\* last call with its result and the map before it
\* Find (protocol-manager.h:62-69, subclass-manager.h:63-70): the entry's
\* implementation, or NoImpl for nullptr
Find(map, k) == map[k]
\* Contains (protocol-manager.h:130-133, subclass-manager.h:156-159)
Contains(map, k) == map[k] # NoImpl
\* Size (protocol-manager.h:120-123, subclass-manager.h:146-149)
Size(map) == Cardinality({k \in DOMAIN map : map[k] # NoImpl})
\* unordered_map::erase(key): the map afterwards and the number erased
Erase(map, k) == [map |-> [map EXCEPT ![k] = NoImpl],
                  count |-> IF map[k] = NoImpl THEN 0 ELSE 1]

Called(r, op, k, impl, result, map) ==
  /\ registryApi' = [registryApi EXCEPT
                       !.map[r] = map,
                       !.keys[r] = IF op = "Unregister" THEN @ \ {k} ELSE @,
                       !.last = [op |-> op, registry |-> r, k |-> k, impl |-> impl,
                                 result |-> result, before |-> registryApi.map[r]]]
  /\ UNCHANGED outsideRegistryApi

\* Register (protocol-manager.h:76-79, subclass-manager.h:77-80) with a new
\* implementation for any key
RegisterAny(r, k) ==
  /\ registryApi.made < MaxRegistrations
  /\ \E impl \in {[NoImpl EXCEPT !.id = registryApi.made + 1]} :
       /\ registryApi' = [registryApi EXCEPT
                            !.made = @ + 1,
                            !.keys[r] = @ \cup {k},
                            !.map[r] = Emplace(@, k, impl),
                            !.last = [op |-> "Register", registry |-> r, k |-> k,
                                      impl |-> impl, result |-> TRUE,
                                      before |-> registryApi.map[r]]]
       /\ UNCHANGED outsideRegistryApi

\* Unregister (protocol-manager.h:86-89, subclass-manager.h:87-90)
UnregisterAny(r, k) ==
  \E erased_ \in {Erase(registryApi.map[r], k)} :
    Called(r, "Unregister", k, NoImpl, erased_.count > 0, erased_.map)

FindAny(r, k) ==
  Called(r, "Find", k, NoImpl, Find(registryApi.map[r], k), registryApi.map[r])

ContainsAny(r, k) ==
  Called(r, "Contains", k, NoImpl, Contains(registryApi.map[r], k), registryApi.map[r])

SizeOf(r) ==
  Called(r, "Size", NoKey, NoImpl, Size(registryApi.map[r]), registryApi.map[r])

NextRegistryApi ==
  \E r \in Registries :
    \/ SizeOf(r)
    \/ \E k \in RegistryKeys :
         \/ RegisterAny(r, k)
         \/ UnregisterAny(r, k)
         \/ FindAny(r, k)
         \/ ContainsAny(r, k)

SpecRegistryApi == Init /\ [][NextRegistryApi]_vars

\* C30: when Register(k, impl) has returned, Find(k) yields impl and
\* Contains(k) is true, also when k was present before; Unregister(k)
\* returns true exactly when k was present and leaves Contains(k) false;
\* Size() is the number of distinct keys registered.
C30_LookupReturnsLatest ==
  LET last == registryApi.last
      map == registryApi.map[last.registry]
  IN /\ last.op = "Register" =>
          Find(map, last.k) = last.impl /\ Contains(map, last.k)
     /\ last.op = "Unregister" =>
          /\ last.result = (last.before[last.k] # NoImpl)
          /\ ~Contains(map, last.k)
     /\ last.op = "Size" =>
          last.result = Cardinality(registryApi.keys[last.registry])

====
